---- MODULE Spec2Model ----
(***************************************************************************)
(* Model of two components of coopnorge/member-lib:                        *)
(*   - pkg/creational/pool  ResourcePoolManager[T]  (object pool)          *)
(*   - pkg/behavior/breaker CircuitBreaker          (circuit breaker)      *)
(* Callers are the processes of Procs.  Every step is one atomic action of *)
(* the Go code: a sync.Map operation, a critical section of a mutex, a     *)
(* channel operation or a select.                                          *)
(***************************************************************************)
EXTENDS Integers, FiniteSets, Sequences, TLC

\* ------------------------------------------------------------------ bounds
MaxResources == 3      \* resources the factory may construct in one run
MaxCalls == 4          \* calls of the pool's methods in one run, contexts live
MaxCtxCalls == 3       \* the same, with contexts that end during the calls
MaxSeqCalls == 6       \* the same, for a single caller
MaxLiveCalls == 3      \* the same, in the runs checked for progress
MaxShutdownCalls == 5  \* calls of one caller that also cleans up with any context
MaxShareCalls == 4     \* calls of callers that share resource pointers
MaxTeardownCalls == 3  \* calls of callers that clean up while others are at work
MaxCancelCalls == 4    \* calls of one caller whose contexts end, with fairness
MaxCleanCalls == 3     \* calls before the final CleanUpManagedResources
MaxLongCalls == 516    \* calls of one caller in a run of more than 256 cycles
MaxWrapCalls == 5      \* calls of one caller that uses AcquireAndReleaseResource

MaxDelayCalls == 4     \* calls in the runs that change the retry delay

MaxStrLen == 2         \* characters in a Configuration field

MaxTime == 3           \* ticks of the clock in one run
MaxFailures == 4       \* actions fail while failureCount is below it
MaxDepth == 2          \* breaker calls nested in one another
MaxMuCalls == 4        \* breaker calls begun in the lock-by-lock runs

Delays == {2, 3}       \* arguments of SetRetryOnResourceDelay, in seconds
Procs == {"a", "b"}    \* concurrent callers
PoolSizes == {1, 2}            \* maxPoolSize of the concurrent runs
UsageLimits == {0, 1}          \* resourceUsageLimit of the concurrent runs
SeqPoolSizes == {0, 1, 2, 255} \* maxPoolSize of the single-caller runs
SeqUsageLimits == {0, 1, 2}    \* resourceUsageLimit of the single-caller runs

Thresholds == {0, 1, 2}        \* MaxFailuresThreshold of the breaker
Timeouts == {0, 1}             \* ResetTimeout of the breaker, in ticks
ConcThresholds == {0, 1}       \* the same, for concurrent callers
ConcTimeouts == {1}

\* --------------------------------------------------------------- constants
defaultRetryOnResourceDelay == 1   \* time.Second, in seconds
MaxIntStrLen == 19     \* len(strconv.FormatInt(math.MaxInt64, 10))
MaxUintStrLen == 20    \* len(strconv.FormatUint(math.MaxUint64, 10))
ZeroTime == -1         \* time.Time{}: lastAttempt before any failure
UnlimitedPool == 255   \* ^uint8(0)
Uint8 == 256           \* width of usageCount / currentPoolSize

Ids == 1 .. MaxResources
NoRes == 0             \* nil *T / nil *managedResource

NoBPre == [state |-> "Closed", failureCount |-> 0, lastAttempt |-> ZeroTime,
           now |-> 0]
\* a sync.RWMutex nobody holds and nobody waits for; val is the value a
\* writer of the guarded field is about to store
NoLock == [writer |-> "none", readers |-> {}, pending |-> {}, val |-> 0]
NoTimer == [d |-> 0, writer |-> "none"]
NoCfg == [ResetTimeout |-> <<"?">>, MaxFailuresThreshold |-> <<"?">>]
\* a whole number wraps * 2^64 + v
Num(wraps, v) == [wraps |-> wraps, v |-> v]
NoMade == [cb |-> "none", err |-> "none", currentState |-> "none",
           failureCount |-> 0, failureLimit |-> Num(0, 0), timeout |-> Num(0, 0)]

NoReset == [done |-> FALSE, state |-> "Closed", timedOut |-> FALSE]
NoBEvent == [proc |-> "none", res |-> "nil", err |-> "none", invoked |-> FALSE,
             hooks |-> <<>>,
             probed |-> FALSE, pre |-> NoBPre, reset |-> NoReset]
Broken == -1           \* run: an action has succeeded, or the run is over

NoMsg == [res |-> NoRes, err |-> "empty"]
NoRel == [proc |-> "none", op |-> "none", res |-> NoRes, found |-> FALSE,
          err |-> "none", action |-> "none", cleaned |-> {}]
NoPre == [pool |-> {}, isAcquired |-> <<>>, usageCount |-> <<>>, constructed |-> 0,
          ctx |-> "live",
          after |-> NoRel]
NoEvent == [proc |-> "none", res |-> NoRes, err |-> "none", at |-> "none",
            retry |-> FALSE, ctx |-> "live", pre |-> NoPre]

VARIABLES
  maxPoolSize, resourceUsageLimit,   \* ResourcePoolManager configuration
  pool,                              \* keys of rpm.pool (sync.Map)
  isAcquired, usageCount,            \* managedResource fields, by resource
  constructed,                       \* number of factory.Construct calls
  deconstructed,                     \* factory.Deconstruction calls, by resource
  pc,                                \* position of each caller
  gpc,                               \* position of the caller's getResource goroutine
  visited, snap,                     \* progress of the goroutine's pool.Range
  cand,                              \* acqManagedResource of the goroutine
  chan,                              \* obtainedResource channel (capacity 1)
  ctx,                               \* state of the caller's context
  retry,                             \* isNeedToRetryOnTaken of the running call
  last,                              \* the AcquireResource return made by the last step
  held,                              \* resources returned to the caller, not given back
  arg,                               \* resource argument of Release/Detach in progress
  calls,                             \* calls of the pool's methods so far
  pre,                               \* the resources as they were when the running call began
  rel,                               \* the return of ReleaseResource, DetachResource,
                                     \* AcquireAndReleaseResource or
                                     \* CleanUpManagedResources made by the last step
  action,                            \* AcquireAndReleaseResource in progress: "pending"
                                     \* before action runs, then what action returned
  iter,                              \* loop counter i of CleanUpManagedResources
  retryOnResourceDelay,              \* the delay between retries
  rpmMu,                             \* rpm.mu, the pool-level sync.RWMutex
  timer,                             \* the delay the caller's retry timer was armed
                                     \* with, and who held rpm.mu for writing then
  detached                           \* resources a DetachResource has removed

VARIABLES
  failureLimit, timeout,             \* CircuitBreaker configuration
  currentState, failureCount, lastAttempt,
  now,                               \* the clock
  bpc,                               \* position of each caller in Proceed / Reset
  exceeded,                          \* isExceededFailureCount of recordFailure
  invoked,                           \* the running Proceed has run the action
  hooks,                             \* hooks the running Proceed has called
  probed,                            \* the running Proceed has set HalfOpen
  bpre,                              \* the breaker as it was when the call began
  blast,                             \* the Proceed return made by the last step
  run,                               \* Proceed calls since fresh / Reset, while
                                     \* no action has succeeded
  reset,                             \* the last call to return was a Reset, and
                                     \* the breaker as that Reset found it
  seen,                              \* outcomes of the actions run and hooks called
                                     \* since the breaker was built
  mu,                                \* cb.mu, the breaker's sync.RWMutex
  stack,                             \* breaker calls in progress of each caller,
                                     \* the innermost last
  mucalls,                           \* breaker calls begun, nested ones included
  cfg,                               \* the Configuration given to NewCircuitBreaker
  made                               \* what NewCircuitBreaker returned for it

lockVars == <<mu, stack, mucalls>>
parseVars == <<cfg, made>>
cbVars == <<failureLimit, timeout, currentState, failureCount, lastAttempt, now,
            bpc, exceeded, invoked, hooks, probed, bpre, blast, run, reset, seen,
            lockVars, parseVars>>

delayVars == <<retryOnResourceDelay, rpmMu, timer>>
cfgVars == <<maxPoolSize, resourceUsageLimit, delayVars>>
resVars == <<pool, isAcquired, usageCount, constructed, deconstructed, detached>>
goVars == <<gpc, visited, snap, cand>>
callVars == <<pc, ctx, retry, held, arg, pre>>
poolVars == <<cfgVars, resVars, goVars, callVars, chan, last, calls, rel, action, iter>>

vars == <<poolVars, cbVars>>

\* ctx.Err()
CtxErr(c) ==
  CASE c = "live" -> "nil"
    [] c = "canceled" -> "Canceled"
    [] c = "expired" -> "DeadlineExceeded"

\* mutant: "unlimited" taken as the largest count a uint8 holds
UnderLimit_ZeroIsMax(r) ==
  usageCount[r] < (IF resourceUsageLimit = 0 THEN Uint8 - 1
                                             ELSE resourceUsageLimit)

\* mutant: the limit compared with <= instead of <
UnderLimit_OffByOne(r) ==
  resourceUsageLimit = 0 \/ usageCount[r] <= resourceUsageLimit

\* rpm.resourceUsageLimit == 0 || mr.usageCount < rpm.resourceUsageLimit
UnderLimit(r) ==
  resourceUsageLimit = 0 \/ usageCount[r] < resourceUsageLimit

\* NewResourcePoolManager(poolSize, resourceUsageLimit, factory)
NewResourcePoolManager(sizes, limits) ==
  /\ maxPoolSize \in sizes
  /\ resourceUsageLimit \in limits
  /\ pool = {}
  /\ isAcquired = [r \in Ids |-> FALSE]
  /\ usageCount = [r \in Ids |-> 0]
  /\ constructed = 0
  /\ deconstructed = [r \in Ids |-> 0]
  /\ pc = [p \in Procs |-> "idle"]
  /\ gpc = [p \in Procs |-> "none"]
  /\ visited = [p \in Procs |-> {}]
  /\ snap = [p \in Procs |-> {}]
  /\ cand = [p \in Procs |-> NoRes]
  /\ chan = [p \in Procs |-> NoMsg]
  /\ ctx = [p \in Procs |-> "live"]
  /\ retry = [p \in Procs |-> FALSE]
  /\ last = NoEvent
  /\ held = [p \in Procs |-> {}]
  /\ arg = [p \in Procs |-> NoRes]
  /\ calls = 0
  /\ pre = [p \in Procs |-> NoPre]
  /\ rel = NoRel
  /\ action = [p \in Procs |-> "none"]
  /\ iter = [p \in Procs |-> 0]
  /\ retryOnResourceDelay = defaultRetryOnResourceDelay
  /\ rpmMu = NoLock
  /\ timer = [p \in Procs |-> NoTimer]
  /\ detached = {}

\* NewCircuitBreaker(cfg)
NewCircuitBreaker(limits, timeouts) ==
  /\ failureLimit \in limits
  /\ timeout \in timeouts
  /\ currentState = "Closed"
  /\ failureCount = 0
  /\ lastAttempt = ZeroTime
  /\ now = 0
  /\ bpc = [p \in Procs |-> "idle"]
  /\ exceeded = [p \in Procs |-> FALSE]
  /\ invoked = [p \in Procs |-> FALSE]
  /\ hooks = [p \in Procs |-> <<>>]
  /\ probed = [p \in Procs |-> FALSE]
  /\ bpre = [p \in Procs |-> NoBPre]
  /\ blast = NoBEvent
  /\ run = 0
  /\ reset = NoReset
  /\ seen = {}
  /\ mu = NoLock
  /\ stack = [p \in Procs |-> <<>>]
  /\ mucalls = 0
  /\ cfg = NoCfg
  /\ made = NoMade

Init ==
  /\ NewResourcePoolManager(PoolSizes, UsageLimits)
  /\ NewCircuitBreaker({0}, {0})

InitSeq ==
  /\ NewResourcePoolManager(SeqPoolSizes, SeqUsageLimits)
  /\ NewCircuitBreaker({0}, {0})

InitLong ==
  /\ NewResourcePoolManager({1}, {0})
  /\ NewCircuitBreaker({0}, {0})

InitCB ==
  /\ NewResourcePoolManager({0}, {0})
  /\ NewCircuitBreaker(Thresholds, Timeouts)

InitCBConc ==
  /\ NewResourcePoolManager({0}, {0})
  /\ NewCircuitBreaker(ConcThresholds, ConcTimeouts)


\* ------------------------------------------------------------ pool helpers
Foreign == MaxResources + 1   \* a *T this pool never constructed

\* mutant: the "0 means unlimited" case forgotten
Eligible_NoUnlimited(r) ==
  ~isAcquired[r] /\ usageCount[r] < resourceUsageLimit

\* mutant: only entries that were never used are taken
Eligible_FreshOnly(r) == ~isAcquired[r] /\ usageCount[r] = 0

\* if !mr.isAcquired { if limit == 0 || mr.usageCount < limit { acq = mr } }
Eligible(r) == ~isAcquired[r] /\ UnderLimit(r)

\* mutant: the pool grows whenever nothing is idle
LimitReached_Never(n) == n < 0

\* mutant: a size of 0 taken as "no limit"
LimitReached_ZeroIsUnlimited(n) ==
  /\ maxPoolSize \notin {0, UnlimitedPool}
  /\ n >= maxPoolSize

\* mutant: the size compared with > instead of >=
LimitReached_OffByOne(n) ==
  /\ maxPoolSize # UnlimitedPool
  /\ n > maxPoolSize

\* verifyCurrentPoolSize: nil for the maximum of the type, else the counted
\* size against maxPoolSize
LimitReached(n) ==
  /\ maxPoolSize # UnlimitedPool
  /\ n >= maxPoolSize

\* what a read of rpm.retryOnResourceDelay made without rpm.mu can yield:
\* the stored value, or the one a writer holding rpm.mu is storing
DelayRead ==
  IF rpmMu.writer = "none" THEN {retryOnResourceDelay}
                           ELSE {retryOnResourceDelay, rpmMu.val}

\* mutant: the retry flag ignored
GivesUp_Always(rt, err) == TRUE

\* an error from getResource ends the call unless the caller retries and the
\* error is ErrorPoolLimitReached
GivesUp(rt, err) == ~rt \/ err # "PoolLimitReached"

\* a pool.Range may end once every key that was in the map for the whole of
\* the call has been visited
RangeComplete(p) == (snap[p] \cap pool) \subseteq visited[p]

\* resourceObtained <- m : buffered, never blocks; nobody reads the channel
\* of a call that has already returned
Send(p, m) ==
  chan' = [chan EXCEPT ![p] = IF pc[p] = "wait" THEN m ELSE NoMsg]

\* AcquireResource returns (res, err) to caller p
Return(p, res, err, at) ==
  /\ pc' = [pc EXCEPT ![p] = IF action[p] = "pending" /\ err = "nil"
                                THEN "action" ELSE "idle"]
  /\ last' = [proc |-> p, res |-> res, err |-> err, at |-> at,
              retry |-> retry[p], ctx |-> ctx[p], pre |-> pre[p]]
  /\ held' = [held EXCEPT ![p] = IF res = NoRes THEN @ ELSE @ \cup {res}]
  /\ ctx' = [ctx EXCEPT ![p] = "live"]
  /\ retry' = [retry EXCEPT ![p] = FALSE]
  /\ pre' = [pre EXCEPT ![p] = NoPre]
  /\ IF action[p] = "pending"
       THEN IF err = "nil"
              THEN \* AcquireAndReleaseResource goes on to defer the release
                   /\ arg' = [arg EXCEPT ![p] = res]
                   /\ rel' = NoRel
                   /\ UNCHANGED action
              ELSE \* AcquireAndReleaseResource: return rErr
                   /\ rel' = [proc |-> p, op |-> "AcquireAndReleaseResource",
                              res |-> NoRes, found |-> FALSE, err |-> err,
                              action |-> "none", cleaned |-> {}]
                   /\ action' = [action EXCEPT ![p] = "none"]
                   /\ UNCHANGED arg
       ELSE /\ rel' = NoRel
            /\ UNCHANGED <<arg, action>>
  /\ UNCHANGED iter

ActionResult_Swallowed(e) == "nil"
\* AcquireAndReleaseResource: return action(r)
ActionResult(e) == e

\* a step that is no return of AcquireResource
NoReturn == last' = NoEvent /\ rel' = NoRel /\ UNCHANGED <<action, iter>>

\* ReleaseResource or DetachResource returns to caller p; a deferred
\* ReleaseResource returns from AcquireAndReleaseResource with what action
\* returned
Released(p, op, r, found) ==
  /\ last' = NoEvent
  /\ IF action[p] = "none"
       THEN /\ rel' = [proc |-> p, op |-> op, res |-> r, found |-> found,
                       err |-> "nil", action |-> "none", cleaned |-> {}]
            /\ UNCHANGED action
       ELSE /\ rel' = [proc |-> p, op |-> "AcquireAndReleaseResource", res |-> r,
                       found |-> found, err |-> ActionResult(action[p]),
                       action |-> action[p], cleaned |-> {}]
            /\ action' = [action EXCEPT ![p] = "none"]
  /\ UNCHANGED iter

\* resources a caller may pass to ReleaseResource / DetachResource: the ones
\* it holds, one that left the pool earlier, or one the pool never produced
Releasable(p) ==
  held[p]
    \cup {r \in Ids : r <= constructed /\ r \notin pool
                      /\ \A q \in Procs : r \notin held[q]}
    \cup {Foreign}

\* ------------------------------------------------------- AcquireResource
\* AcquireResource(ctx, isNeedToRetryOnTaken) is called
AcquireBegin(p, c, rt) ==
  /\ pc[p] = "idle"
  /\ gpc[p] = "none"
  /\ pc' = [pc EXCEPT ![p] = "acquire"]
  /\ ctx' = [ctx EXCEPT ![p] = c]
  /\ retry' = [retry EXCEPT ![p] = rt]
  /\ pre' = [pre EXCEPT ![p] = [pool |-> pool, isAcquired |-> isAcquired,
                                usageCount |-> usageCount,
                                constructed |-> constructed, ctx |-> c,
                                after |-> rel]]
  /\ NoReturn
  /\ UNCHANGED <<cfgVars, resVars, goVars, chan, held, arg>>
  /\ UNCHANGED cbVars

\* one of the n calls of a run
CallAcquire(p, c, rt, n) ==
  /\ calls < n
  /\ calls' = calls + 1
  /\ AcquireBegin(p, c, rt)

\* mutant: the entry check of the context left out
AcquireEntry_NoCtxCheck(p) ==
  /\ pc[p] = "acquire"
  /\ pc' = [pc EXCEPT ![p] = "wait"]
  /\ gpc' = [gpc EXCEPT ![p] = "spawned"]
  /\ chan' = [chan EXCEPT ![p] = NoMsg]
  /\ NoReturn
  /\ UNCHANGED <<calls, cfgVars, resVars, visited, snap, cand, ctx, retry, held,
                 arg, pre>>
  /\ UNCHANGED cbVars

\* if ctx.Err() != nil { return nil, ctx.Err() } ; go rpm.getResource(ch)
AcquireEntry(p) ==
  /\ pc[p] = "acquire"
  /\ IF ctx[p] # "live"
       THEN /\ Return(p, NoRes, CtxErr(ctx[p]), "entry")
            /\ UNCHANGED <<gpc, chan>>
       ELSE /\ pc' = [pc EXCEPT ![p] = "wait"]
            /\ gpc' = [gpc EXCEPT ![p] = "spawned"]
            /\ chan' = [chan EXCEPT ![p] = NoMsg]
            /\ NoReturn
            /\ UNCHANGED <<ctx, retry, held, arg, pre>>
  /\ UNCHANGED <<calls, cfgVars, resVars, visited, snap, cand>>
  /\ UNCHANGED cbVars

\* getResource: rpm.pool.Range(...) begins
RangeStart(p) ==
  /\ gpc[p] = "spawned"
  /\ gpc' = [gpc EXCEPT ![p] = "range"]
  /\ snap' = [snap EXCEPT ![p] = pool]
  /\ NoReturn
  /\ UNCHANGED <<calls, cfgVars, resVars, callVars, visited, cand, chan>>
  /\ UNCHANGED cbVars

\* one call of the Range callback: mr.mu.Lock(); check; mr.mu.Unlock()
RangeVisit(p, r) ==
  /\ gpc[p] = "range"
  /\ r \in pool \ visited[p]
  /\ visited' = [visited EXCEPT ![p] = @ \cup {r}]
  /\ cand' = [cand EXCEPT ![p] = IF Eligible(r) THEN r ELSE @]
  /\ NoReturn
  /\ UNCHANGED <<calls, cfgVars, resVars, callVars, gpc, snap, chan>>
  /\ UNCHANGED cbVars

\* Range returns; if acqManagedResource == nil, verifyCurrentPoolSize begins
RangeEnd(p) ==
  /\ gpc[p] = "range"
  /\ RangeComplete(p)
  /\ visited' = [visited EXCEPT ![p] = {}]
  /\ IF cand[p] # NoRes
       THEN /\ gpc' = [gpc EXCEPT ![p] = "claim"]
            /\ snap' = [snap EXCEPT ![p] = {}]
       ELSE IF maxPoolSize = UnlimitedPool
         THEN /\ gpc' = [gpc EXCEPT ![p] = "construct"]
              /\ snap' = [snap EXCEPT ![p] = {}]
         ELSE /\ gpc' = [gpc EXCEPT ![p] = "count"]
              /\ snap' = [snap EXCEPT ![p] = pool]
  /\ NoReturn
  /\ UNCHANGED <<calls, cfgVars, resVars, callVars, cand, chan>>
  /\ UNCHANGED cbVars

\* verifyCurrentPoolSize: one call of the counting callback, currentPoolSize++
CountVisit(p, r) ==
  /\ gpc[p] = "count"
  /\ r \in pool \ visited[p]
  /\ visited' = [visited EXCEPT ![p] = @ \cup {r}]
  /\ NoReturn
  /\ UNCHANGED <<calls, cfgVars, resVars, callVars, gpc, snap, cand, chan>>
  /\ UNCHANGED cbVars

\* verifyCurrentPoolSize returns; on an error getResource sends it and ends
CountEnd(p) ==
  /\ gpc[p] = "count"
  /\ RangeComplete(p)
  /\ visited' = [visited EXCEPT ![p] = {}]
  /\ snap' = [snap EXCEPT ![p] = {}]
  /\ IF LimitReached(Cardinality(visited[p]) % Uint8)
       THEN /\ gpc' = [gpc EXCEPT ![p] = "none"]
            /\ Send(p, [res |-> NoRes, err |-> "PoolLimitReached"])
       ELSE /\ gpc' = [gpc EXCEPT ![p] = "construct"]
            /\ UNCHANGED chan
  /\ NoReturn
  /\ UNCHANGED <<calls, cfgVars, resVars, callVars, cand>>
  /\ UNCHANGED cbVars

\* createManagedResource: &managedResource{resource: rpm.factory.Construct()}
Construct(p) ==
  /\ gpc[p] = "construct"
  /\ constructed < MaxResources
  /\ constructed' = constructed + 1
  /\ cand' = [cand EXCEPT ![p] = constructed + 1]
  /\ gpc' = [gpc EXCEPT ![p] = "claim"]
  /\ NoReturn
  /\ UNCHANGED <<calls, cfgVars, pool, isAcquired, usageCount, deconstructed,
                 callVars, visited, snap, chan,
                 detached>>
  /\ UNCHANGED cbVars

\* mu.Lock(); usageCount++; isAcquired = true; pool.Store(...); send; Unlock
Claim(p) ==
  /\ gpc[p] = "claim"
  /\ usageCount' = [usageCount EXCEPT ![cand[p]] = (@ + 1) % Uint8]
  /\ isAcquired' = [isAcquired EXCEPT ![cand[p]] = TRUE]
  /\ pool' = pool \cup {cand[p]}
  /\ Send(p, [res |-> cand[p], err |-> "nil"])
  /\ gpc' = [gpc EXCEPT ![p] = "none"]
  /\ cand' = [cand EXCEPT ![p] = NoRes]
  /\ NoReturn
  /\ UNCHANGED <<calls, cfgVars, constructed, deconstructed, callVars, visited, snap,
                 detached>>
  /\ UNCHANGED cbVars

\* mutant: the Done case is taken only once getResource has delivered
SelectCtxDone_AfterResult(p) ==
  /\ pc[p] = "wait"
  /\ ctx[p] # "live"
  /\ chan[p] # NoMsg
  /\ Return(p, NoRes, CtxErr(ctx[p]), "select")
  /\ chan' = [chan EXCEPT ![p] = NoMsg]
  /\ UNCHANGED <<calls, cfgVars, resVars, goVars>>
  /\ UNCHANGED cbVars

\* first select: case <-ctx.Done(): return nil, ctx.Err()
SelectCtxDone(p) ==
  /\ pc[p] = "wait"
  /\ ctx[p] # "live"
  /\ Return(p, NoRes, CtxErr(ctx[p]), "select")
  /\ chan' = [chan EXCEPT ![p] = NoMsg]
  /\ UNCHANGED <<calls, cfgVars, resVars, goVars>>
  /\ UNCHANGED cbVars

\* first select: case managedResource := <-obtainedResource
SelectResult(p) ==
  /\ pc[p] = "wait"
  /\ chan[p] # NoMsg
  /\ chan' = [chan EXCEPT ![p] = NoMsg]
  /\ IF chan[p].err = "nil"
       THEN Return(p, chan[p].res, "nil", "result")
       ELSE IF GivesUp(retry[p], chan[p].err)
         THEN Return(p, NoRes, chan[p].err, "result")
         ELSE /\ pc' = [pc EXCEPT ![p] = "retry"]
              /\ NoReturn
              /\ UNCHANGED <<ctx, retry, held, arg, pre>>
  /\ IF chan[p].err # "nil" /\ ~GivesUp(retry[p], chan[p].err)
       THEN \* the second select begins: time.After(rpm.retryOnResourceDelay)
            \E d \in DelayRead :
              timer' = [timer EXCEPT ![p] = [d |-> d, writer |-> rpmMu.writer]]
       ELSE UNCHANGED timer
  /\ UNCHANGED <<calls, maxPoolSize, resourceUsageLimit, retryOnResourceDelay,
                 rpmMu, resVars, goVars>>
  /\ UNCHANGED cbVars

\* second select: case <-ctx.Done(): return nil, ctx.Err()
RetryCtxDone(p) ==
  /\ pc[p] = "retry"
  /\ ctx[p] # "live"
  /\ Return(p, NoRes, CtxErr(ctx[p]), "retry")
  /\ timer' = [timer EXCEPT ![p] = NoTimer]
  /\ UNCHANGED <<calls, maxPoolSize, resourceUsageLimit, retryOnResourceDelay,
                 rpmMu, resVars, goVars, chan>>
  /\ UNCHANGED cbVars

\* mutant: one retry only, the call gives up when the delay is over
RetryTimer_GivesUp(p) ==
  /\ pc[p] = "retry"
  /\ Return(p, NoRes, "PoolLimitReached", "retry")
  /\ timer' = [timer EXCEPT ![p] = NoTimer]
  /\ UNCHANGED <<calls, maxPoolSize, resourceUsageLimit, retryOnResourceDelay,
                 rpmMu, resVars, goVars, chan>>
  /\ UNCHANGED cbVars

\* second select: case <-time.After(delay): return rpm.AcquireResource(...)
RetryTimer(p) ==
  /\ pc[p] = "retry"
  /\ pc' = [pc EXCEPT ![p] = "acquire"]
  /\ timer' = [timer EXCEPT ![p] = NoTimer]
  /\ NoReturn
  /\ UNCHANGED <<calls, maxPoolSize, resourceUsageLimit, retryOnResourceDelay,
                 rpmMu, resVars, goVars, chan, ctx, retry, held, arg, pre>>
  /\ UNCHANGED cbVars

\* the caller's context is cancelled, or its deadline passes, during the call
CtxCancel(p) ==
  /\ pc[p] \in {"wait", "retry"}
  /\ ctx[p] = "live"
  /\ ctx' = [ctx EXCEPT ![p] = "canceled"]
  /\ NoReturn
  /\ UNCHANGED <<calls, cfgVars, resVars, goVars, chan, pc, retry, held, arg, pre>>
  /\ UNCHANGED cbVars

CtxExpire(p) ==
  /\ pc[p] \in {"wait", "retry"}
  /\ ctx[p] = "live"
  /\ ctx' = [ctx EXCEPT ![p] = "expired"]
  /\ NoReturn
  /\ UNCHANGED <<calls, cfgVars, resVars, goVars, chan, pc, retry, held, arg, pre>>
  /\ UNCHANGED cbVars

\* ------------------------------------------------------- ReleaseResource
CallRelease_StoresUnknown(p, r, n) ==
  /\ pc[p] = "idle"
  /\ calls < n
  /\ calls' = calls + 1
  /\ r \in Releasable(p)
  /\ held' = [held EXCEPT ![p] = @ \ {r}]
  /\ IF r \in pool
       THEN /\ pc' = [pc EXCEPT ![p] = "release"]
            /\ arg' = [arg EXCEPT ![p] = r]
            /\ NoReturn
            /\ UNCHANGED resVars
       ELSE /\ pool' = pool \cup ({r} \cap Ids)
            /\ Released(p, "release", r, FALSE)
            /\ UNCHANGED <<pc, arg, isAcquired, usageCount, constructed,
                           deconstructed, detached>>
  /\ UNCHANGED <<cfgVars, goVars, chan, ctx, retry, pre>>
  /\ UNCHANGED cbVars

\* ReleaseResource(r) is called, for any pointer r:
\* value, ok := rpm.pool.Load(releasedResource); if !ok { return }
ReleaseLoad(p, r) ==
  /\ pc[p] = "idle"
  /\ held' = [held EXCEPT ![p] = @ \ {r}]
  /\ IF r \in pool
       THEN /\ pc' = [pc EXCEPT ![p] = "release"]
            /\ arg' = [arg EXCEPT ![p] = r]
       ELSE UNCHANGED <<pc, arg>>
  /\ IF r \in pool THEN NoReturn ELSE Released(p, "release", r, FALSE)
  /\ UNCHANGED <<cfgVars, resVars, goVars, chan, ctx, retry, pre>>
  /\ UNCHANGED cbVars

\* one of the n calls of a run: the caller passes a resource it holds, one
\* that left the pool, or one the pool never had
CallRelease(p, r, n) ==
  /\ calls < n
  /\ calls' = calls + 1
  /\ r \in Releasable(p)
  /\ ReleaseLoad(p, r)

ReleaseBody_NoDeconstruction(p) ==
  /\ pc[p] = "release"
  /\ IF UnderLimit(arg[p])
       THEN /\ isAcquired' = [isAcquired EXCEPT ![arg[p]] = FALSE]
            /\ pool' = pool \cup {arg[p]}
       ELSE /\ pool' = pool \ {arg[p]}
            /\ UNCHANGED isAcquired
  /\ pc' = [pc EXCEPT ![p] = "idle"]
  /\ arg' = [arg EXCEPT ![p] = NoRes]
  /\ Released(p, "release", arg[p], TRUE)
  /\ UNCHANGED <<calls, cfgVars, usageCount, constructed, deconstructed, goVars,
                 chan, ctx, retry, held, pre, detached>>
  /\ UNCHANGED cbVars

\* mu.Lock(); under the limit: isAcquired = false, Store; else destroy; Unlock
ReleaseBody(p) ==
  /\ pc[p] = "release"
  /\ IF UnderLimit(arg[p])
       THEN /\ isAcquired' = [isAcquired EXCEPT ![arg[p]] = FALSE]
            /\ pool' = pool \cup {arg[p]}
            /\ UNCHANGED deconstructed
       ELSE /\ pool' = pool \ {arg[p]}
            /\ deconstructed' = [deconstructed EXCEPT ![arg[p]] = @ + 1]
            /\ UNCHANGED isAcquired
  /\ pc' = [pc EXCEPT ![p] = "idle"]
  /\ arg' = [arg EXCEPT ![p] = NoRes]
  /\ Released(p, "release", arg[p], TRUE)
  /\ UNCHANGED <<calls, cfgVars, usageCount, constructed, goVars, chan, ctx,
                 retry, held, pre, detached>>
  /\ UNCHANGED cbVars

\* -------------------------------------------------------- DetachResource
\* r, ok := rpm.pool.Load(resource); if !ok { return }
DetachLoad(p, r, n) ==
  /\ pc[p] = "idle"
  /\ calls < n
  /\ calls' = calls + 1
  /\ held' = [held EXCEPT ![p] = @ \ {r}]
  /\ IF r \in pool
       THEN /\ pc' = [pc EXCEPT ![p] = "detach"]
            /\ arg' = [arg EXCEPT ![p] = r]
       ELSE UNCHANGED <<pc, arg>>
  /\ IF r \in pool THEN NoReturn ELSE Released(p, "detach", r, FALSE)
  /\ UNCHANGED <<cfgVars, resVars, goVars, chan, ctx, retry, pre>>
  /\ UNCHANGED cbVars

\* the caller passes a resource it holds, one that left the pool, or one the
\* pool never had
CallDetach(p, r, n) ==
  /\ r \in Releasable(p)
  /\ DetachLoad(p, r, n)

DetachBody_Deconstructs(p) ==
  /\ pc[p] = "detach"
  /\ pool' = pool \ {arg[p]}
  /\ deconstructed' = [deconstructed EXCEPT ![arg[p]] = @ + 1]
  /\ pc' = [pc EXCEPT ![p] = "idle"]
  /\ arg' = [arg EXCEPT ![p] = NoRes]
  /\ Released(p, "detach", arg[p], TRUE)
  /\ detached' = detached \cup {arg[p]}
  /\ UNCHANGED <<calls, cfgVars, isAcquired, usageCount, constructed,
                 goVars, chan, ctx, retry, held, pre>>
  /\ UNCHANGED cbVars

\* mu.Lock(); rpm.pool.Delete(resource); mu.Unlock()
DetachBody(p) ==
  /\ pc[p] = "detach"
  /\ pool' = pool \ {arg[p]}
  /\ pc' = [pc EXCEPT ![p] = "idle"]
  /\ arg' = [arg EXCEPT ![p] = NoRes]
  /\ Released(p, "detach", arg[p], TRUE)
  /\ detached' = detached \cup {arg[p]}
  /\ UNCHANGED <<calls, cfgVars, isAcquired, usageCount, constructed, deconstructed,
                 goVars, chan, ctx, retry, held, pre>>
  /\ UNCHANGED cbVars

\* ------------------------------------------- AcquireAndReleaseResource
\* r, rErr := rpm.AcquireResource(ctx, true)
CallAcquireAndRelease(p, c, n) ==
  /\ pc[p] = "idle"
  /\ gpc[p] = "none"
  /\ calls < n
  /\ calls' = calls + 1
  /\ pc' = [pc EXCEPT ![p] = "acquire"]
  /\ ctx' = [ctx EXCEPT ![p] = c]
  /\ retry' = [retry EXCEPT ![p] = TRUE]
  /\ pre' = [pre EXCEPT ![p] = [pool |-> pool, isAcquired |-> isAcquired,
                                usageCount |-> usageCount,
                                constructed |-> constructed, ctx |-> c,
                                after |-> rel]]
  /\ action' = [action EXCEPT ![p] = "pending"]
  /\ last' = NoEvent
  /\ rel' = NoRel
  /\ UNCHANGED <<cfgVars, resVars, goVars, chan, held, arg, iter>>
  /\ UNCHANGED cbVars

\* defer rpm.ReleaseResource(r); return action(r): action returns e, then
\* the deferred ReleaseResource loads r's entry
RunAction(p, e) ==
  /\ pc[p] = "action"
  /\ held' = [held EXCEPT ![p] = @ \ {arg[p]}]
  /\ last' = NoEvent
  /\ IF arg[p] \in pool
       THEN /\ pc' = [pc EXCEPT ![p] = "release"]
            /\ action' = [action EXCEPT ![p] = e]
            /\ rel' = NoRel
            /\ UNCHANGED arg
       ELSE /\ pc' = [pc EXCEPT ![p] = "idle"]
            /\ arg' = [arg EXCEPT ![p] = NoRes]
            /\ rel' = [proc |-> p, op |-> "AcquireAndReleaseResource",
                       res |-> arg[p], found |-> FALSE, err |-> ActionResult(e),
                       action |-> e, cleaned |-> {}]
            /\ action' = [action EXCEPT ![p] = "none"]
  /\ UNCHANGED <<calls, cfgVars, resVars, goVars, chan, ctx, retry, pre, iter>>
  /\ UNCHANGED cbVars

ActionResults == {"nil", "ActionErr"}

\* ------------------------------------------- CleanUpManagedResources
\* no call of the pool's methods is in progress and no getResource runs
Quiet == \A q \in Procs : pc[q] = "idle" /\ gpc[q] = "none"

\* mutant: the context is not looked at, the loop always runs
CallCleanUp_NoCtxCheck(p, c, n, alone) ==
  /\ pc[p] = "idle"
  /\ calls < n
  /\ alone => Quiet
  /\ calls' = IF alone THEN n ELSE calls + 1
  /\ last' = NoEvent
  /\ pc' = [pc EXCEPT ![p] = "cleanup"]
  /\ pre' = [pre EXCEPT ![p] = [pool |-> pool,
                                isAcquired |-> isAcquired,
                                usageCount |-> usageCount,
                                constructed |-> constructed,
                                ctx |-> c, after |-> rel]]
  /\ rel' = NoRel
  /\ UNCHANGED <<cfgVars, resVars, goVars, chan, ctx, retry, held, arg, action,
                 iter>>
  /\ UNCHANGED cbVars

\* if ctx.Err() != nil { return ctx.Err() }; alone: the call is made while
\* the pool is quiet and no other call is made after it
CallCleanUp(p, c, n, alone) ==
  /\ pc[p] = "idle"
  /\ calls < n
  /\ alone => Quiet
  /\ calls' = IF alone THEN n ELSE calls + 1
  /\ last' = NoEvent
  /\ IF c # "live"
       THEN /\ rel' = [proc |-> p, op |-> "CleanUpManagedResources",
                       res |-> NoRes, found |-> FALSE, err |-> CtxErr(c),
                       action |-> "none", cleaned |-> pool]
            /\ UNCHANGED <<pc, pre>>
       ELSE /\ pc' = [pc EXCEPT ![p] = "cleanup"]
            /\ pre' = [pre EXCEPT ![p] = [pool |-> pool,
                                          isAcquired |-> isAcquired,
                                          usageCount |-> usageCount,
                                          constructed |-> constructed,
                                          ctx |-> c, after |-> rel]]
            /\ rel' = NoRel
  /\ UNCHANGED <<cfgVars, resVars, goVars, chan, ctx, retry, held, arg, action,
                 iter>>
  /\ UNCHANGED cbVars

\* for i < maxPoolSize: rpm.pool.Range keeps the last entry it visits; with
\* an empty pool the iteration ends at once
CleanUpRange(p) ==
  /\ pc[p] = "cleanup"
  /\ iter[p] < maxPoolSize
  /\ IF pool = {}
       THEN /\ iter' = [iter EXCEPT ![p] = @ + 1]
            /\ UNCHANGED <<pc, arg>>
       ELSE /\ \E r \in pool : arg' = [arg EXCEPT ![p] = r]
            /\ pc' = [pc EXCEPT ![p] = "destroy"]
            /\ UNCHANGED iter
  /\ last' = NoEvent
  /\ rel' = NoRel
  /\ UNCHANGED <<calls, cfgVars, resVars, goVars, chan, ctx, retry, held, pre,
                 action>>
  /\ UNCHANGED cbVars

\* rpm.destroyManagedResource(acqManagedResource.resource); i++
CleanUpDestroy(p) ==
  /\ pc[p] = "destroy"
  /\ pool' = pool \ {arg[p]}
  /\ deconstructed' = [deconstructed EXCEPT ![arg[p]] = @ + 1]
  /\ arg' = [arg EXCEPT ![p] = NoRes]
  /\ iter' = [iter EXCEPT ![p] = @ + 1]
  /\ pc' = [pc EXCEPT ![p] = "cleanup"]
  /\ last' = NoEvent
  /\ rel' = NoRel
  /\ UNCHANGED <<calls, cfgVars, isAcquired, usageCount, constructed, goVars,
                 chan, ctx, retry, held, pre, action, detached>>
  /\ UNCHANGED cbVars

\* the loop is over: return nil
CleanUpReturn(p) ==
  /\ pc[p] = "cleanup"
  /\ iter[p] >= maxPoolSize
  /\ pc' = [pc EXCEPT ![p] = "idle"]
  /\ iter' = [iter EXCEPT ![p] = 0]
  /\ rel' = [proc |-> p, op |-> "CleanUpManagedResources", res |-> NoRes,
             found |-> FALSE, err |-> "nil", action |-> "none",
             cleaned |-> pre[p].pool]
  /\ pre' = [pre EXCEPT ![p] = NoPre]
  /\ last' = NoEvent
  /\ UNCHANGED <<calls, cfgVars, resVars, goVars, chan, ctx, retry, held, arg,
                 action>>
  /\ UNCHANGED cbVars

CleanUpSteps(p) ==
  \/ CleanUpRange(p)
  \/ CleanUpDestroy(p)
  \/ CleanUpReturn(p)

\* ------------------------------ Get / SetRetryOnResourceDelay
delayRest == <<maxPoolSize, resourceUsageLimit, timer, resVars, goVars, chan,
               ctx, retry, held, arg, pre, action, iter>>

\* SetRetryOnResourceDelay(d): rpm.mu.Lock() is granted
SetDelayLock(p, d, n) ==
  /\ pc[p] = "idle"
  /\ calls < n
  /\ calls' = calls + 1
  /\ rpmMu.writer = "none" /\ rpmMu.readers = {}
  /\ rpmMu' = [rpmMu EXCEPT !.writer = p, !.val = d]
  /\ pc' = [pc EXCEPT ![p] = "setDelay"]
  /\ last' = NoEvent
  /\ rel' = NoRel
  /\ UNCHANGED <<retryOnResourceDelay, delayRest>>
  /\ UNCHANGED cbVars

\* rpm.retryOnResourceDelay = retryOnResourceDelay; Unlock (deferred)
SetDelayStore(p) ==
  /\ pc[p] = "setDelay"
  /\ retryOnResourceDelay' = rpmMu.val
  /\ rpmMu' = [rpmMu EXCEPT !.writer = "none", !.val = 0]
  /\ pc' = [pc EXCEPT ![p] = "idle"]
  /\ last' = NoEvent
  /\ rel' = [NoRel EXCEPT !.proc = p, !.op = "SetRetryOnResourceDelay",
                          !.res = rpmMu.val]
  /\ UNCHANGED <<calls, delayRest>>
  /\ UNCHANGED cbVars

\* GetRetryOnResourceDelay: rpm.mu.RLock() is granted
GetDelayRLock(p, n) ==
  /\ pc[p] = "idle"
  /\ calls < n
  /\ calls' = calls + 1
  /\ rpmMu.writer = "none"
  /\ rpmMu' = [rpmMu EXCEPT !.readers = @ \cup {p}]
  /\ pc' = [pc EXCEPT ![p] = "getDelay"]
  /\ last' = NoEvent
  /\ rel' = NoRel
  /\ UNCHANGED <<retryOnResourceDelay, delayRest>>
  /\ UNCHANGED cbVars

\* return rpm.retryOnResourceDelay; RUnlock (deferred); the value returned
\* is the res of the return
GetDelayRead(p) ==
  /\ pc[p] = "getDelay"
  /\ rpmMu' = [rpmMu EXCEPT !.readers = @ \ {p}]
  /\ pc' = [pc EXCEPT ![p] = "idle"]
  /\ last' = NoEvent
  /\ rel' = [NoRel EXCEPT !.proc = p, !.op = "GetRetryOnResourceDelay",
                          !.res = retryOnResourceDelay]
  /\ UNCHANGED <<calls, retryOnResourceDelay, delayRest>>
  /\ UNCHANGED cbVars

DelaySteps(p, n) ==
  \/ \E d \in Delays : SetDelayLock(p, d, n)
  \/ SetDelayStore(p)
  \/ GetDelayRLock(p, n)
  \/ GetDelayRead(p)

\* ------------------------------------------------------------ pool, whole
CtxStates == {"live", "canceled", "expired"}

\* the steps of a running AcquireResource and of its getResource goroutine
AcquireSteps(p) ==
  \/ AcquireEntry(p)
  \/ RangeStart(p)
  \/ \E r \in Ids : RangeVisit(p, r)
  \/ RangeEnd(p)
  \/ \E r \in Ids : CountVisit(p, r)
  \/ CountEnd(p)
  \/ Construct(p)
  \/ Claim(p)
  \/ SelectResult(p)
  \/ RetryTimer(p)

\* the steps only a context that ends takes
CtxSteps(p) ==
  \/ SelectCtxDone(p)
  \/ RetryCtxDone(p)
  \/ CtxCancel(p)
  \/ CtxExpire(p)

ReleaseSteps(p, n) ==
  \/ \E r \in Ids \cup {Foreign} : CallRelease(p, r, n)
  \/ ReleaseBody(p)

DetachSteps(p, n) ==
  \/ \E r \in Ids \cup {Foreign} : CallDetach(p, r, n)
  \/ DetachBody(p)

\* concurrent callers whose contexts stay live
Next ==
  \E p \in Procs :
    \/ \E rt \in BOOLEAN : CallAcquire(p, "live", rt, MaxCalls)
    \/ AcquireSteps(p)
    \/ ReleaseSteps(p, MaxCalls)
    \/ DetachSteps(p, MaxCalls)

Spec == Init /\ [][Next]_vars

\* concurrent callers whose contexts may be cancelled or expire
CtxNext ==
  \E p \in Procs :
    \/ \E c \in CtxStates, rt \in BOOLEAN : CallAcquire(p, c, rt, MaxCtxCalls)
    \/ AcquireSteps(p)
    \/ CtxSteps(p)
    \/ ReleaseSteps(p, MaxCtxCalls)
    \/ DetachSteps(p, MaxCtxCalls)

SpecCtx == Init /\ [][CtxNext]_vars

\* a single caller, one call after the other
Caller == CHOOSE p \in Procs : TRUE

SeqNext ==
  \/ \E c \in CtxStates, rt \in BOOLEAN : CallAcquire(Caller, c, rt, MaxSeqCalls)
  \/ AcquireSteps(Caller)
  \/ CtxSteps(Caller)
  \/ ReleaseSteps(Caller, MaxSeqCalls)
  \/ DetachSteps(Caller, MaxSeqCalls)

SpecSeq == InitSeq /\ [][SeqNext]_vars

\* acquire/release cycles of a single caller: acquire with a live context,
\* release what is held
CycleNext ==
  \/ \E rt \in BOOLEAN : CallAcquire(Caller, "live", rt, MaxSeqCalls)
  \/ AcquireSteps(Caller)
  \/ \E r \in held[Caller] : CallRelease(Caller, r, MaxSeqCalls)
  \/ ReleaseBody(Caller)

SpecCycle == InitSeq /\ [][CycleNext]_vars

\* concurrent callers with live contexts; goroutines that can run do run and
\* timers that are armed fire
LiveNext ==
  \E p \in Procs :
    \/ \E rt \in BOOLEAN : CallAcquire(p, "live", rt, MaxLiveCalls)
    \/ AcquireSteps(p)
    \/ \E r \in held[p] : CallRelease(p, r, MaxLiveCalls)
    \/ ReleaseBody(p)

SpecLive == Init /\ [][LiveNext]_vars /\ WF_vars(LiveNext)

WrapSteps(p, n) ==
  \/ \E c \in CtxStates : CallAcquireAndRelease(p, c, n)
  \/ \E e \in ActionResults : RunAction(p, e)

\* a single caller that uses AcquireAndReleaseResource next to AcquireResource
\* and ReleaseResource
WrapNext ==
  \/ WrapSteps(Caller, MaxWrapCalls)
  \/ \E rt \in BOOLEAN : CallAcquire(Caller, "live", rt, MaxWrapCalls)
  \/ AcquireSteps(Caller)
  \/ CtxSteps(Caller)
  \/ \E r \in held[Caller] : CallRelease(Caller, r, MaxWrapCalls)
  \/ ReleaseBody(Caller)

SpecWrap == InitSeq /\ [][WrapNext]_vars

\* callers that acquire and release concurrently, and a final
\* CleanUpManagedResources made when all of that is over
CleanNext ==
  \E p \in Procs :
    \/ \E rt \in BOOLEAN : CallAcquire(p, "live", rt, MaxCleanCalls)
    \/ AcquireSteps(p)
    \/ \E r \in held[p] : CallRelease(p, r, MaxCleanCalls)
    \/ ReleaseBody(p)
    \/ CallCleanUp(p, "live", MaxCleanCalls + 1, TRUE)
    \/ CleanUpSteps(p)

SpecClean == Init /\ [][CleanNext]_vars

\* acquire/release cycles of a single caller on a pool of size 1 without a
\* usage limit, long enough for usageCount to wrap around
LongNext ==
  \/ \E rt \in BOOLEAN : CallAcquire(Caller, "live", rt, MaxLongCalls)
  \/ AcquireSteps(Caller)
  \/ \E r \in held[Caller] : CallRelease(Caller, r, MaxLongCalls)
  \/ ReleaseBody(Caller)

SpecLong == InitLong /\ [][LongNext]_vars

\* concurrent callers that acquire from a pool of one resource and read and
\* change the retry delay
DelayNext ==
  \E p \in Procs :
    \/ \E rt \in BOOLEAN : CallAcquire(p, "live", rt, MaxDelayCalls)
    \/ AcquireSteps(p)
    \/ DelaySteps(p, MaxDelayCalls)

SpecDelay == InitLong /\ [][DelayNext]_vars

\* ------------------------------------------------------------ CircuitBreaker
States == {"Closed", "HalfOpen", "Open"}

Exceeded_AtLimit(n) == n >= failureLimit
\* recordFailure: isExceededFailureCount
Exceeded(n) == n > failureLimit

\* mutant: an open period never runs out
IsTimeout_OnlyFromZeroTime == lastAttempt = ZeroTime
IsTimeout_Always == TRUE
IsTimeout_NotStrict == lastAttempt = ZeroTime \/ now - lastAttempt >= timeout
\* isTimeout: time.Since(lastAttempt) > timeout; from the zero time it always is
IsTimeout == lastAttempt = ZeroTime \/ now - lastAttempt > timeout

\* a step inside a call: caller p moves on to position `to`
Goto(p, to) ==
  /\ bpc' = [bpc EXCEPT ![p] = to]
  /\ blast' = NoBEvent
  /\ UNCHANGED <<bpre, run, reset, seen>>

\* Proceed returns (res, err) to caller p, having called the hooks hk
ProceedReturn(p, res, err, hk) ==
  /\ bpc' = [bpc EXCEPT ![p] = "idle"]
  /\ blast' = [proc |-> p, res |-> res, err |-> err, invoked |-> invoked[p],
               hooks |-> hk,
               probed |-> probed[p], pre |-> bpre[p], reset |-> reset]
  /\ reset' = NoReset
  /\ run' = IF err # "nil" /\ run # Broken /\ run <= failureLimit
              THEN run + 1 ELSE Broken
  /\ invoked' = [invoked EXCEPT ![p] = FALSE]
  /\ hooks' = [hooks EXCEPT ![p] = <<>>]
  /\ probed' = [probed EXCEPT ![p] = FALSE]
  /\ exceeded' = [exceeded EXCEPT ![p] = FALSE]
  /\ bpre' = [bpre EXCEPT ![p] = NoBPre]
  /\ seen' = seen \cup {hk[i] : i \in 1..Len(hk)}
                  \cup (IF invoked[p]
                          THEN {IF err = "nil" THEN "ok" ELSE "failed"}
                          ELSE {})

cbCfg == <<failureLimit, timeout>>

\* a caller enters Proceed
CallProceed(p) ==
  /\ bpc[p] = "idle"
  /\ bpc' = [bpc EXCEPT ![p] = "GetState"]
  /\ bpre' = [bpre EXCEPT ![p] = [state |-> currentState,
                                   failureCount |-> failureCount,
                                   lastAttempt |-> lastAttempt,
                                   now |-> now]]
  /\ blast' = NoBEvent
  /\ UNCHANGED <<cbCfg, currentState, failureCount, lastAttempt, now,
                 exceeded, invoked, hooks, probed, run, reset, seen>>
  /\ UNCHANGED <<poolVars, lockVars, parseVars>>

\* Proceed: switch cb.GetState()
GetState(p) ==
  /\ bpc[p] = "GetState"
  /\ Goto(p, IF currentState \in {"HalfOpen", "Closed"} THEN "action"
                                                          ELSE "isTimeout")
  /\ UNCHANGED <<cbCfg, currentState, failureCount, lastAttempt, now,
                 exceeded, invoked, hooks, probed>>
  /\ UNCHANGED <<poolVars, lockVars, parseVars>>

\* Proceed, state open: if cb.isTimeout() ... else return nil, ErrCircuitOpen
OpenCheck(p) ==
  /\ bpc[p] = "isTimeout"
  /\ IF IsTimeout
       THEN /\ Goto(p, "setHalfOpen")
            /\ UNCHANGED <<exceeded, invoked, hooks, probed>>
       ELSE ProceedReturn(p, "nil", "ErrCircuitOpen", hooks[p])
  /\ UNCHANGED <<cbCfg, currentState, failureCount, lastAttempt, now>>
  /\ UNCHANGED <<poolVars, lockVars, parseVars>>

\* Proceed, state open and timed out: cb.setState(StateHalfOpen), then
\* Proceed again
SetHalfOpen(p) ==
  /\ bpc[p] = "setHalfOpen"
  /\ currentState' = "HalfOpen"
  /\ probed' = [probed EXCEPT ![p] = TRUE]
  /\ Goto(p, "GetState")
  /\ UNCHANGED <<cbCfg, failureCount, lastAttempt, now, exceeded, invoked, hooks>>
  /\ UNCHANGED <<poolVars, lockVars, parseVars>>

\* Proceed, state closed or half-open: action() returns without an error
ActionSucceeds(p) ==
  /\ bpc[p] = "action"
  /\ invoked' = [invoked EXCEPT ![p] = TRUE]
  /\ Goto(p, "OnSuccess")
  /\ UNCHANGED <<cbCfg, currentState, failureCount, lastAttempt, now,
                 exceeded, hooks, probed>>
  /\ UNCHANGED <<poolVars, lockVars, parseVars>>

\* Proceed, state closed or half-open: action() returns an error
ActionFails(p) ==
  /\ bpc[p] = "action"
  /\ failureCount < MaxFailures
  /\ invoked' = [invoked EXCEPT ![p] = TRUE]
  /\ Goto(p, "recordFailure")
  /\ UNCHANGED <<cbCfg, currentState, failureCount, lastAttempt, now,
                 exceeded, hooks, probed>>
  /\ UNCHANGED <<poolVars, lockVars, parseVars>>

\* mutant: a failure counts but does not restart the open period
RecordFailure_KeepsLastAttempt(p) ==
  /\ bpc[p] = "recordFailure"
  /\ failureCount' = failureCount + 1
  /\ exceeded' = [exceeded EXCEPT ![p] = Exceeded(failureCount')]
  /\ Goto(p, IF exceeded'[p] THEN "setOpen" ELSE "OnFailure")
  /\ UNCHANGED <<cbCfg, currentState, lastAttempt, now, invoked, hooks, probed>>
  /\ UNCHANGED <<poolVars, lockVars, parseVars>>

\* recordFailure, the part under the lock
RecordFailure(p) ==
  /\ bpc[p] = "recordFailure"
  /\ failureCount' = failureCount + 1
  /\ lastAttempt' = now
  /\ exceeded' = [exceeded EXCEPT ![p] = Exceeded(failureCount')]
  /\ Goto(p, IF exceeded'[p] THEN "setOpen" ELSE "OnFailure")
  /\ UNCHANGED <<cbCfg, currentState, now, invoked, hooks, probed>>
  /\ UNCHANGED <<poolVars, lockVars, parseVars>>

\* recordFailure: if isExceededFailureCount { cb.setState(StateOpen) }
SetOpen(p) ==
  /\ bpc[p] = "setOpen"
  /\ currentState' = "Open"
  /\ Goto(p, "OnFailure")
  /\ UNCHANGED <<cbCfg, failureCount, lastAttempt, now, exceeded, invoked,
                 hooks, probed>>
  /\ UNCHANGED <<poolVars, lockVars, parseVars>>

OnFailure_ReturnsCircuitOpen(p) ==
  /\ bpc[p] = "OnFailure"
  /\ ProceedReturn(p, "nil", "ErrCircuitOpen", Append(hooks[p], "OnFailure"))
  /\ UNCHANGED <<cbCfg, currentState, failureCount, lastAttempt, now>>
  /\ UNCHANGED <<poolVars, lockVars, parseVars>>

\* Proceed: cb.OnFailure(); return nil, err
OnFailure(p) ==
  /\ bpc[p] = "OnFailure"
  /\ ProceedReturn(p, "nil", "ActionErr", Append(hooks[p], "OnFailure"))
  /\ UNCHANGED <<cbCfg, currentState, failureCount, lastAttempt, now>>
  /\ UNCHANGED <<poolVars, lockVars, parseVars>>

\* mutant: the success path without its hook
OnSuccess_NotCalled(p) ==
  /\ bpc[p] = "OnSuccess"
  /\ Goto(p, "recordSuccess")
  /\ UNCHANGED <<cbCfg, currentState, failureCount, lastAttempt, now,
                 exceeded, invoked, hooks, probed>>
  /\ UNCHANGED <<poolVars, lockVars, parseVars>>

\* Proceed: cb.OnSuccess()
OnSuccess(p) ==
  /\ bpc[p] = "OnSuccess"
  /\ hooks' = [hooks EXCEPT ![p] = Append(hooks[p], "OnSuccess")]
  /\ Goto(p, "recordSuccess")
  /\ UNCHANGED <<cbCfg, currentState, failureCount, lastAttempt, now,
                 exceeded, invoked, probed>>
  /\ UNCHANGED <<poolVars, lockVars, parseVars>>

RecordSuccess_Resets(p) ==
  /\ bpc[p] = "recordSuccess"
  /\ IF failureCount > 0
       THEN /\ failureCount' = 0
            /\ ProceedReturn(p, "result", "nil", hooks[p])
       ELSE /\ Goto(p, "setClosed")
            /\ UNCHANGED <<failureCount, exceeded, invoked, hooks, probed>>
  /\ UNCHANGED <<cbCfg, currentState, lastAttempt, now>>
  /\ UNCHANGED <<poolVars, lockVars, parseVars>>

RecordSuccess_ClosesAtZero(p) ==
  /\ bpc[p] = "recordSuccess"
  /\ IF failureCount > 0
       THEN /\ failureCount' = failureCount - 1
            /\ currentState' = IF failureCount' = 0 THEN "Closed" ELSE currentState
            /\ ProceedReturn(p, "result", "nil", hooks[p])
            /\ UNCHANGED <<cbCfg, lastAttempt, now>>
       ELSE /\ Goto(p, "setClosed")
            /\ UNCHANGED <<failureCount, exceeded, invoked, hooks, probed>>
            /\ UNCHANGED <<cbCfg, currentState, lastAttempt, now>>
  /\ UNCHANGED <<poolVars, lockVars, parseVars>>

\* recordSuccess, the part under the lock; Proceed returns result, nil when
\* the count was positive
RecordSuccess(p) ==
  /\ bpc[p] = "recordSuccess"
  /\ IF failureCount > 0
       THEN /\ failureCount' = failureCount - 1
            /\ ProceedReturn(p, "result", "nil", hooks[p])
       ELSE /\ Goto(p, "setClosed")
            /\ UNCHANGED <<failureCount, exceeded, invoked, hooks, probed>>
  /\ UNCHANGED <<cbCfg, currentState, lastAttempt, now>>
  /\ UNCHANGED <<poolVars, lockVars, parseVars>>

\* recordSuccess with a count of zero: cb.setState(StateClosed); Proceed
\* returns result, nil
SetClosed(p) ==
  /\ bpc[p] = "setClosed"
  /\ currentState' = "Closed"
  /\ ProceedReturn(p, "result", "nil", hooks[p])
  /\ UNCHANGED <<cbCfg, failureCount, lastAttempt, now>>
  /\ UNCHANGED <<poolVars, lockVars, parseVars>>

Reset_KeepsCount(p) ==
  /\ bpc[p] = "idle"
  /\ bpc' = [bpc EXCEPT ![p] = "resetState"]
  /\ bpre' = [bpre EXCEPT ![p] = [state |-> currentState,
                                   failureCount |-> failureCount,
                                   lastAttempt |-> lastAttempt,
                                   now |-> now]]
  /\ blast' = NoBEvent
  /\ UNCHANGED <<cbCfg, currentState, failureCount, lastAttempt, now, exceeded,
                 invoked, hooks, probed, run, reset, seen>>
  /\ UNCHANGED <<poolVars, lockVars, parseVars>>

\* Reset, the part under the lock: failureCount = 0
Reset(p) ==
  /\ bpc[p] = "idle"
  /\ failureCount' = 0
  /\ bpc' = [bpc EXCEPT ![p] = "resetState"]
  /\ bpre' = [bpre EXCEPT ![p] = [state |-> currentState,
                                   failureCount |-> failureCount,
                                   lastAttempt |-> lastAttempt,
                                   now |-> now]]
  /\ blast' = NoBEvent
  /\ UNCHANGED <<run, reset, seen>>
  /\ UNCHANGED <<cbCfg, currentState, lastAttempt, now, exceeded, invoked,
                 hooks, probed>>
  /\ UNCHANGED <<poolVars, lockVars, parseVars>>

\* Reset: cb.setState(StateClosed)
ResetSetState(p) ==
  /\ bpc[p] = "resetState"
  /\ currentState' = "Closed"
  /\ bpc' = [bpc EXCEPT ![p] = "idle"]
  /\ blast' = NoBEvent
  /\ run' = 0
  /\ reset' = [done |-> TRUE, state |-> bpre[p].state,
               timedOut |-> \/ bpre[p].lastAttempt = ZeroTime
                            \/ bpre[p].now - bpre[p].lastAttempt > timeout]
  /\ bpre' = [bpre EXCEPT ![p] = NoBPre]
  /\ UNCHANGED <<cbCfg, failureCount, lastAttempt, now, exceeded, invoked,
                 hooks, probed, seen>>
  /\ UNCHANGED <<poolVars, lockVars, parseVars>>

\* time passes
Tick ==
  /\ now < MaxTime
  /\ now' = now + 1
  /\ blast' = NoBEvent
  /\ UNCHANGED <<cbCfg, currentState, failureCount, lastAttempt, bpc,
                 exceeded, invoked, hooks, probed, bpre, run, reset, seen>>
  /\ UNCHANGED <<poolVars, lockVars, parseVars>>

ProceedSteps(p) ==
  \/ GetState(p)
  \/ OpenCheck(p)
  \/ SetHalfOpen(p)
  \/ ActionSucceeds(p)
  \/ ActionFails(p)
  \/ RecordFailure(p)
  \/ SetOpen(p)
  \/ OnFailure(p)
  \/ OnSuccess(p)
  \/ RecordSuccess(p)
  \/ SetClosed(p)

\* one caller, one call after the other, while time passes
CBSeqNext ==
  \/ CallProceed(Caller)
  \/ ProceedSteps(Caller)
  \/ Reset(Caller)
  \/ ResetSetState(Caller)
  \/ Tick

SpecCBSeq == InitCB /\ [][CBSeqNext]_vars

\* concurrent callers
CBNext ==
  \/ \E p \in Procs :
       \/ CallProceed(p)
       \/ ProceedSteps(p)
       \/ Reset(p)
       \/ ResetSetState(p)
  \/ Tick

SpecCB == InitCBConc /\ [][CBNext]_vars

\* a caller whose actions stop failing while the clock can still pass
\* ResetTimeout, and for whom time passes between calls
ActionFailsEarly(p) ==
  /\ now + timeout < MaxTime
  /\ ActionFails(p)

TickIdle ==
  /\ bpc[Caller] = "idle"
  /\ Tick

\* the steps that are bound to happen: the caller keeps calling Proceed, a
\* call that has begun goes on, and an action can succeed
RecoverSteps ==
  \/ CallProceed(Caller)
  \/ GetState(Caller)
  \/ OpenCheck(Caller)
  \/ SetHalfOpen(Caller)
  \/ ActionSucceeds(Caller)
  \/ RecordFailure(Caller)
  \/ SetOpen(Caller)
  \/ OnFailure(Caller)
  \/ OnSuccess(Caller)
  \/ RecordSuccess(Caller)
  \/ SetClosed(Caller)
  \/ ResetSetState(Caller)

RecoverNext ==
  \/ RecoverSteps
  \/ ActionFailsEarly(Caller)
  \/ Reset(Caller)
  \/ TickIdle

SpecRecover ==
  InitCB /\ [][RecoverNext]_vars /\ WF_vars(RecoverSteps) /\ WF_vars(TickIdle)

\* ------------------------------------------- NewCircuitBreaker(cfg)
\* the characters Configuration fields are made of here: signs, digits and
\* one that is neither
Chars == {"-", "+", "0", "1", "7", "x"}
Digits == {"0", "1", "7"}
Strs == UNION {[1..n -> Chars] : n \in 0..MaxStrLen}
Cfgs == [ResetTimeout : Strs, MaxFailuresThreshold : Strs]

DigitVal(c) == CASE c = "0" -> 0 [] c = "1" -> 1 [] c = "7" -> 7

IsDigits(str) == str # <<>> /\ \A i \in 1..Len(str) : str[i] \in Digits

RECURSIVE Value(_)
Value(str) ==
  IF str = <<>> THEN 0
  ELSE 10 * Value(SubSeq(str, 1, Len(str) - 1)) + DigitVal(str[Len(str)])

\* strconv.ParseInt(str, 10, bits): an optional sign, then digits; strings
\* of MaxStrLen characters stay within every bit size
ParseInt(str) ==
  LET signed == str # <<>> /\ str[1] \in {"+", "-"}
      body == IF signed THEN Tail(str) ELSE str
  IN IF IsDigits(body)
       THEN [err |-> FALSE,
             v |-> IF str[1] = "-" THEN 0 - Value(body) ELSE Value(body)]
       ELSE [err |-> TRUE, v |-> 0]

\* strconv.ParseUint(str, 10, bits): digits, no sign
ParseUint(str) ==
  IF IsDigits(str) THEN [err |-> FALSE, v |-> Value(str)]
                   ELSE [err |-> TRUE, v |-> 0]

\* T(v): a negative v converted to uint64 is 2^64 + v
Cast(T, v) == IF T = "uint64" /\ v < 0 THEN Num(1, v) ELSE Num(0, v)

\* parseInt[T]: strconv.ParseInt when the string is negative or short enough;
\* on success result = T(pInt) and isWithErr = false
parseInt(T, str) ==
  LET isNegativeInt == str # <<>> /\ str[1] = "-"
      p == ParseInt(str)
  IN IF (isNegativeInt \/ Len(str) <= MaxIntStrLen) /\ ~p.err
       THEN [result |-> Cast(T, p.v), isWithErr |-> FALSE]
       ELSE [result |-> Num(0, 0), isWithErr |-> TRUE]

\* parseUint[T]
parseUint(T, str) ==
  LET p == ParseUint(str)
  IN IF Len(str) <= MaxUintStrLen /\ ~p.err
       THEN [result |-> Cast(T, p.v), isWithErr |-> FALSE]
       ELSE [result |-> Num(0, 0), isWithErr |-> TRUE]

\* ToWholeNumber[T](str): parseInt, then parseUint if that gave 0 with an
\* error; an error if isWithErr is still set
ToWholeNumber(T, str) ==
  LET i == parseInt(T, str)
  IN IF i.result = Num(0, 0) /\ i.isWithErr THEN parseUint(T, str) ELSE i

\* a Configuration is given
Configure(c) ==
  /\ cfg = NoCfg
  /\ cfg' = c
  /\ UNCHANGED <<made, failureLimit, timeout, currentState, failureCount,
                 lastAttempt, now, bpc, exceeded, invoked, hooks, probed, bpre,
                 blast, run, reset, seen, lockVars, poolVars>>

\* NewCircuitBreaker(cfg): (nil, error) if either field fails to parse, else
\* a breaker that is closed
NewCircuitBreakerFrom ==
  /\ cfg # NoCfg
  /\ made = NoMade
  /\ LET restTimout == ToWholeNumber("int32", cfg.ResetTimeout)
         maxFailuresThreshold == ToWholeNumber("uint64", cfg.MaxFailuresThreshold)
     IN made' =
          IF restTimout.isWithErr
            THEN [NoMade EXCEPT !.cb = "nil", !.err = "ResetTimout"]
          ELSE IF maxFailuresThreshold.isWithErr
            THEN [NoMade EXCEPT !.cb = "nil", !.err = "MaxFailuresThreshold"]
          ELSE [cb |-> "cb", err |-> "nil", currentState |-> "Closed",
                failureCount |-> 0,
                failureLimit |-> maxFailuresThreshold.result,
                timeout |-> restTimout.result]
  /\ UNCHANGED <<cfg, failureLimit, timeout, currentState, failureCount,
                 lastAttempt, now, bpc, exceeded, invoked, hooks, probed, bpre,
                 blast, run, reset, seen, lockVars, poolVars>>

ParseNext ==
  \/ \E c \in Cfgs : Configure(c)
  \/ NewCircuitBreakerFrom

SpecParse == InitCB /\ [][ParseNext]_vars

\* a single caller that acquires and releases, and calls
\* CleanUpManagedResources with contexts that are live, cancelled or expired
ShutdownNext ==
  \/ \E rt \in BOOLEAN : CallAcquire(Caller, "live", rt, MaxShutdownCalls)
  \/ AcquireSteps(Caller)
  \/ \E r \in held[Caller] : CallRelease(Caller, r, MaxShutdownCalls)
  \/ ReleaseBody(Caller)
  \/ \E c \in CtxStates : CallCleanUp(Caller, c, MaxShutdownCalls, FALSE)
  \/ CleanUpSteps(Caller)

SpecShutdown == Init /\ [][ShutdownNext]_vars

\* r was sent by getResource and not yet received by AcquireResource
InDelivery(r) == \E q \in Procs : chan[q] # NoMsg /\ chan[q].res = r

\* the resources AcquireResource has returned so far (acquired at least once,
\* and not on the way to their first caller): pointers the application may
\* still have and may share between its goroutines
Known ==
  {r \in Ids : /\ r <= constructed
               /\ usageCount[r] > 0
               /\ ~(usageCount[r] = 1 /\ InDelivery(r))}

\* ReleaseResource(r) with a pointer that another caller may hold or have
\* released
ShareRelease(p, r, n) ==
  /\ calls < n
  /\ calls' = calls + 1
  /\ r \in Known
  /\ ReleaseLoad(p, r)

\* DetachResource(r) with such a pointer
ShareDetach(p, r, n) ==
  /\ r \in Known
  /\ DetachLoad(p, r, n)

\* concurrent callers that release and detach any resource the pool has
\* handed out, also one that another caller holds or has released
ShareNext ==
  \E p \in Procs :
    \/ \E rt \in BOOLEAN : CallAcquire(p, "live", rt, MaxShareCalls)
    \/ AcquireSteps(p)
    \/ \E r \in Ids : ShareRelease(p, r, MaxShareCalls)
    \/ ReleaseBody(p)
    \/ \E r \in Ids : ShareDetach(p, r, MaxShareCalls)
    \/ DetachBody(p)

SpecShare == Init /\ [][ShareNext]_vars

\* concurrent callers that acquire, release and detach what they hold, and
\* call CleanUpManagedResources while other calls are in progress
TeardownNext ==
  \E p \in Procs :
    \/ \E rt \in BOOLEAN : CallAcquire(p, "live", rt, MaxTeardownCalls)
    \/ AcquireSteps(p)
    \/ \E r \in held[p] : CallRelease(p, r, MaxTeardownCalls)
    \/ ReleaseBody(p)
    \/ \E r \in held[p] : CallDetach(p, r, MaxTeardownCalls)
    \/ DetachBody(p)
    \/ CallCleanUp(p, "live", MaxTeardownCalls, FALSE)
    \/ CleanUpSteps(p)

SpecTeardown == Init /\ [][TeardownNext]_vars

\* the steps of AcquireResource itself: the entry check, the two selects
CallerSteps(p) ==
  \/ AcquireEntry(p)
  \/ SelectCtxDone(p)
  \/ SelectResult(p)
  \/ RetryCtxDone(p)
  \/ RetryTimer(p)

\* a single caller whose contexts may end during the calls
CancelNext ==
  \/ \E c \in CtxStates, rt \in BOOLEAN :
       CallAcquire(Caller, c, rt, MaxCancelCalls)
  \/ AcquireSteps(Caller)
  \/ CtxSteps(Caller)
  \/ ReleaseSteps(Caller, MaxCancelCalls)

\* a caller that can go on does go on: a ready select is taken, an armed
\* timer fires
SpecCancel == InitSeq /\ [][CancelNext]_vars /\ WF_vars(CallerSteps(Caller))

\* the caller that waits, and the one that keeps using the resource
Victim == Caller
Rival == CHOOSE q \in Procs : q # Caller

\* the steps of getResource
GoSteps(p) ==
  \/ RangeStart(p)
  \/ \E r \in Ids : RangeVisit(p, r)
  \/ RangeEnd(p)
  \/ \E r \in Ids : CountVisit(p, r)
  \/ CountEnd(p)
  \/ Construct(p)
  \/ Claim(p)

\* an unlucky schedule on a pool of one resource: Rival acquires, Victim
\* begins a retrying AcquireResource; Rival releases and acquires again only
\* while Victim sleeps in its retry delay, and Victim's timer fires only once
\* Rival holds the resource again. Every step is a step of the methods, only
\* the moments at which calls begin and the timer fires are chosen.
RivalAcquire ==
  /\ held[Rival] = {}
  /\ pc[Victim] \in {"idle", "retry"}
  /\ AcquireBegin(Rival, "live", FALSE)
  /\ UNCHANGED calls

RivalRelease ==
  /\ pc[Victim] = "retry"
  /\ \E r \in held[Rival] : ReleaseLoad(Rival, r)
  /\ UNCHANGED calls

VictimCall ==
  /\ held[Rival] # {}
  /\ CallAcquire(Victim, "live", TRUE, 1)

VictimRetry ==
  /\ held[Rival] # {}
  /\ pc[Rival] = "idle"
  /\ RetryTimer(Victim)

StarveNext ==
  \/ RivalAcquire
  \/ RivalRelease
  \/ ReleaseBody(Rival)
  \/ VictimCall
  \/ VictimRetry
  \/ \E p \in Procs :
       \/ GoSteps(p)
       \/ AcquireEntry(p)
       \/ SelectResult(p)

\* nothing that can go on stops, and neither Rival's releases nor Victim's
\* timer are put off for ever
SpecStarve ==
  /\ InitLong
  /\ [][StarveNext]_vars
  /\ WF_vars(StarveNext)
  /\ SF_vars(RivalRelease)
  /\ SF_vars(VictimRetry)

\* ------------------------------------------- CircuitBreaker, lock by lock
\* the same methods with cb.mu made explicit: every Lock/RLock and the
\* critical section that follows it are steps of their own, and an action or
\* a hook may call GetState, Reset or Proceed of the same breaker

MuFns == {"Proceed", "GetState", "Reset"}

\* the frame of a call that has just begun
Frame(fn) == [fn |-> fn, pc |-> IF fn = "Reset" THEN "Reset" ELSE "GetState",
              to |-> "none", locked |-> FALSE]

Top(p) == stack[p][Len(stack[p])]
At(p, pcs) == stack[p] # <<>> /\ ~Top(p).locked /\ Top(p).pc \in pcs
\* the caller is between the Lock/RLock made at pcv and its Unlock/RUnlock
Inside(p, pcv) == stack[p] # <<>> /\ Top(p).locked /\ Top(p).pc = pcv

\* places where the caller is about to call mu.RLock() / mu.Lock()
RLockPcs == {"GetState", "isTimeout"}
LockPcs == {"setState", "recordFailure", "recordSuccess", "Reset"}
\* places where user code runs: the action and the two hooks
UserPcs == {"action", "OnSuccess", "OnFailure"}

\* the Lock/RLock the caller is at is granted
MuEnter(p) ==
  stack' = [stack EXCEPT ![p][Len(stack[p])] = [@ EXCEPT !.locked = TRUE]]

\* the caller goes on at pcv of the same call, with `to` the state a
\* setState is to store
MuGoto(p, pcv, to) ==
  stack' = [stack EXCEPT ![p][Len(stack[p])] =
                             [@ EXCEPT !.pc = pcv, !.to = to, !.locked = FALSE]]

\* the innermost call returns
MuReturn(p) ==
  stack' = [stack EXCEPT ![p] = SubSeq(@, 1, Len(@) - 1)]

\* mu.Unlock() / mu.RUnlock() by p
Unlock(p) ==
  mu' = [mu EXCEPT !.writer = IF @ = p THEN "none" ELSE @,
                   !.readers = @ \ {p}]

muData == <<currentState, failureCount, lastAttempt>>
muRest == <<failureLimit, timeout, now, bpc, exceeded, invoked, hooks, probed,
            bpre, blast, run, reset, seen, parseVars, poolVars>>

\* a caller calls fn: from outside, or from inside the action or a hook of a
\* Proceed that is in progress
MuCall(p, fn) ==
  /\ stack[p] = <<>> \/ At(p, UserPcs)
  /\ Len(stack[p]) < MaxDepth
  /\ mucalls < MaxMuCalls
  /\ mucalls' = mucalls + 1
  /\ stack' = [stack EXCEPT ![p] = Append(@, Frame(fn))]
  /\ UNCHANGED <<mu, muData, muRest>>

\* mu.RLock(): granted unless a writer holds the lock or waits for it
MuRLock(p) ==
  /\ At(p, RLockPcs)
  /\ mu.writer = "none"
  /\ mu.pending = {}
  /\ mu' = [mu EXCEPT !.readers = @ \cup {p}]
  /\ MuEnter(p)
  /\ UNCHANGED <<mucalls, muData, muRest>>

\* mu.Lock(): granted when nobody holds the lock; until then the caller
\* waits, and new readers wait behind it
MuLock(p) ==
  /\ At(p, LockPcs)
  /\ IF mu.writer = "none" /\ mu.readers = {}
       THEN /\ mu' = [mu EXCEPT !.writer = p, !.pending = @ \ {p}]
            /\ MuEnter(p)
       ELSE /\ p \notin mu.pending
            /\ mu' = [mu EXCEPT !.pending = @ \cup {p}]
            /\ UNCHANGED stack
  /\ UNCHANGED <<mucalls, muData, muRest>>

\* GetState: return cb.currentState (RUnlock deferred); in Proceed the
\* switch on it follows
MuGetState(p) ==
  /\ Inside(p, "GetState")
  /\ Unlock(p)
  /\ IF Top(p).fn = "GetState"
       THEN MuReturn(p)
       ELSE MuGoto(p, IF currentState \in {"HalfOpen", "Closed"}
                        THEN "action" ELSE "isTimeout", "none")
  /\ UNCHANGED <<mucalls, muData, muRest>>

\* isTimeout (RUnlock deferred); Proceed: setState(StateHalfOpen) if it is,
\* else return nil, ErrCircuitOpen
MuIsTimeout(p) ==
  /\ Inside(p, "isTimeout")
  /\ Unlock(p)
  /\ IF IsTimeout THEN MuGoto(p, "setState", "HalfOpen") ELSE MuReturn(p)
  /\ UNCHANGED <<mucalls, muData, muRest>>

\* setState: cb.currentState = state (Unlock deferred); then Proceed calls
\* itself (HalfOpen), goes on to OnFailure (Open), or the call returns (Closed)
MuSetState(p) ==
  /\ Inside(p, "setState")
  /\ currentState' = Top(p).to
  /\ Unlock(p)
  /\ CASE Top(p).to = "HalfOpen" -> MuGoto(p, "GetState", "none")
       [] Top(p).to = "Open" -> MuGoto(p, "OnFailure", "none")
       [] Top(p).to = "Closed" -> MuReturn(p)
  /\ UNCHANGED <<mucalls, failureCount, lastAttempt, muRest>>

\* action() returns, with or without an error
MuAction(p, ok) ==
  /\ At(p, {"action"})
  /\ ok \/ failureCount < MaxFailures
  /\ MuGoto(p, IF ok THEN "OnSuccess" ELSE "recordFailure", "none")
  /\ UNCHANGED <<mucalls, mu, muData, muRest>>

\* recordFailure: the part between Lock and Unlock
MuRecordFailure(p) ==
  /\ Inside(p, "recordFailure")
  /\ failureCount' = failureCount + 1
  /\ lastAttempt' = now
  /\ Unlock(p)
  /\ IF Exceeded(failureCount') THEN MuGoto(p, "setState", "Open")
                                ELSE MuGoto(p, "OnFailure", "none")
  /\ UNCHANGED <<mucalls, currentState, muRest>>

\* cb.OnFailure() returns; return nil, err
MuOnFailure(p) ==
  /\ At(p, {"OnFailure"})
  /\ MuReturn(p)
  /\ UNCHANGED <<mucalls, mu, muData, muRest>>

\* cb.OnSuccess() returns
MuOnSuccess(p) ==
  /\ At(p, {"OnSuccess"})
  /\ MuGoto(p, "recordSuccess", "none")
  /\ UNCHANGED <<mucalls, mu, muData, muRest>>

\* recordSuccess: the part between Lock and Unlock
MuRecordSuccess(p) ==
  /\ Inside(p, "recordSuccess")
  /\ Unlock(p)
  /\ IF failureCount > 0
       THEN /\ failureCount' = failureCount - 1
            /\ MuReturn(p)
       ELSE /\ MuGoto(p, "setState", "Closed")
            /\ UNCHANGED failureCount
  /\ UNCHANGED <<mucalls, currentState, lastAttempt, muRest>>

\* mutant: Reset calls setState without having unlocked
MuReset_KeepsLock(p) ==
  /\ Inside(p, "Reset")
  /\ failureCount' = 0
  /\ MuGoto(p, "setState", "Closed")
  /\ UNCHANGED <<mucalls, mu, currentState, lastAttempt, muRest>>

\* Reset: mu.Lock(); failureCount = 0; mu.Unlock(); then setState(StateClosed)
MuReset(p) ==
  /\ Inside(p, "Reset")
  /\ failureCount' = 0
  /\ Unlock(p)
  /\ MuGoto(p, "setState", "Closed")
  /\ UNCHANGED <<mucalls, currentState, lastAttempt, muRest>>

\* the steps of a call in progress
MuSteps(p) ==
  \/ MuRLock(p)
  \/ MuLock(p)
  \/ MuGetState(p)
  \/ MuIsTimeout(p)
  \/ MuSetState(p)
  \/ \E ok \in BOOLEAN : MuAction(p, ok)
  \/ MuRecordFailure(p)
  \/ MuOnFailure(p)
  \/ MuOnSuccess(p)
  \/ MuRecordSuccess(p)
  \/ MuReset(p)

\* concurrent callers of Proceed, GetState and Reset, whose actions and hooks
\* call the breaker again
MuNext ==
  \/ \E p \in Procs :
       \/ \E fn \in MuFns : MuCall(p, fn)
       \/ MuSteps(p)
  \/ Tick

SpecMu == InitCBConc /\ [][MuNext]_vars

\* concurrent Proceed calls whose actions all fail, and Reset calls: the
\* breaker gets back to Closed through Reset only
FailingSteps(p) ==
  \/ MuRLock(p)
  \/ MuLock(p)
  \/ MuGetState(p)
  \/ MuIsTimeout(p)
  \/ MuSetState(p)
  \/ MuAction(p, FALSE)
  \/ MuRecordFailure(p)
  \/ MuOnFailure(p)
  \/ MuReset(p)

FailingNext ==
  \/ \E p \in Procs :
       \/ \E fn \in {"Proceed", "Reset"} : MuCall(p, fn)
       \/ FailingSteps(p)
  \/ Tick

SpecFailing == InitCBConc /\ [][FailingNext]_vars

\* ------------------------------------------------------------------ claims

\* C1: a pooled resource is held by at most one caller at a time: no resource
\* is in the hands of two callers that both got it from AcquireResource and
\* have not given it back.
C1_MutualExclusion ==
  \A p, q \in Procs : p # q => held[p] \cap held[q] = {}

\* C2: for maxPoolSize N < 255 the pool map never has more than N entries.
C2_PoolSizeBounded ==
  maxPoolSize < UnlimitedPool => Cardinality(pool) <= maxPoolSize

\* the resources are as they were when the call that just returned began
SameAsBefore(e) ==
  /\ pool = e.pre.pool
  /\ isAcquired = e.pre.isAcquired
  /\ usageCount = e.pre.usageCount
  /\ constructed = e.pre.constructed

\* C5: with pool size 1 and usage limit L > 0, a caller that acquires and
\* releases in turn gets the same resource until its usageCount is L (each
\* acquisition adds 1), the L-th release removes it from the pool, and the
\* next acquisition returns a newly constructed resource with usageCount 1.
C5_UsageRetirement ==
  (maxPoolSize = 1 /\ resourceUsageLimit > 0 /\ pc[Caller] = "idle") =>
    /\ \A r \in 1 .. (constructed - 1) :
         usageCount[r] = resourceUsageLimit /\ r \notin pool
    /\ constructed = 0 => (pool = {} /\ held[Caller] = {})
    /\ constructed > 0 =>
         /\ usageCount[constructed] \in 1 .. resourceUsageLimit
         /\ IF held[Caller] # {}
              THEN /\ held[Caller] = {constructed}
                   /\ pool = {constructed}
                   /\ isAcquired[constructed]
              ELSE /\ pool = IF usageCount[constructed] = resourceUsageLimit
                               THEN {} ELSE {constructed}
                   /\ ~isAcquired[constructed] \/ pool = {}
    /\ (last.proc # "none" /\ last.err = "nil") =>
         IF last.pre.pool # {}
           THEN /\ last.res \in last.pre.pool
                /\ usageCount[last.res] = last.pre.usageCount[last.res] + 1
           ELSE /\ last.res = last.pre.constructed + 1
                /\ usageCount[last.res] = 1

\* C5 witness: limit 2, resource 1 was used twice and retired, the third
\* acquisition returned resource 2
C5_Witness ==
  /\ maxPoolSize = 1 /\ resourceUsageLimit = 2
  /\ pc[Caller] = "idle"
  /\ last.proc # "none" /\ last.res = 2
  /\ held[Caller] = {2} /\ usageCount[2] = 1 /\ 1 \notin pool
  /\ usageCount[1] = 2

\* caller p sits in its retry delay, r is the one idle resource under the
\* limit, and nobody else is running or can start a call
Freed(p, r) ==
  /\ pc[p] = "retry"
  /\ r \in pool /\ ~isAcquired[r]
  /\ resourceUsageLimit = 0 \/ usageCount[r] < resourceUsageLimit
  /\ \A x \in pool \ {r} : isAcquired[x]
  /\ calls = MaxLiveCalls
  /\ \A q \in Procs \ {p} : pc[q] = "idle" /\ gpc[q] = "none"

\* C6: a retrying call blocked on a full pool, whose context stays live,
\* eventually returns the resource a holder released (nil error) when nobody
\* competes for it; a blocked call leaves its delay only when the timer fires.
C6_BlockedCallGetsReleased ==
  /\ \A p \in Procs, r \in Ids :
       Freed(p, r) ~> (last.proc = p /\ last.res = r /\ last.err = "nil")
  /\ [][\A p \in Procs :
          (pc[p] = "retry" /\ pc'[p] # "retry") => pc'[p] = "acquire"]_vars

\* C6 witness: a retrying call that began on a full pool with nothing idle
\* has returned a resource
C6_Witness ==
  /\ last.proc # "none" /\ last.retry /\ last.err = "nil"
  /\ last.res \in last.pre.pool
  /\ Cardinality(last.pre.pool) = maxPoolSize
  /\ \A r \in last.pre.pool : last.pre.isAcquired[r]

\* C7 (as stated): a retrying AcquireResource never returns
\* ErrorPoolLimitReached; its only error is ctx.Err() of its own context,
\* with a nil resource, returned at entry or at the retry delay.
C7_RetryErrorsAsStated ==
  (last.proc # "none" /\ last.retry) =>
    /\ last.err # "PoolLimitReached"
    /\ last.err # "nil" =>
         /\ last.res = NoRes
         /\ last.ctx = "canceled" => last.err = "Canceled"
         /\ last.ctx = "expired" => last.err = "DeadlineExceeded"
         /\ last.ctx # "live"
         /\ last.at \in {"entry", "retry"}

\* C7 (amended): the same, the error being returned at entry, while waiting
\* for the result of getResource, or at the retry delay.
C7_RetryErrors ==
  (last.proc # "none" /\ last.retry) =>
    /\ last.err # "PoolLimitReached"
    /\ last.err # "nil" =>
         /\ last.res = NoRes
         /\ last.ctx = "canceled" => last.err = "Canceled"
         /\ last.ctx = "expired" => last.err = "DeadlineExceeded"
         /\ last.ctx # "live"
         /\ last.at \in {"entry", "select", "retry"}

\* C7 witness: a retrying call that found the pool full was cancelled in its
\* retry delay
C7_Witness ==
  /\ last.proc # "none" /\ last.retry
  /\ last.err = "Canceled" /\ last.at = "retry"
  /\ Cardinality(pool) >= maxPoolSize

\* C8: a call whose context is already cancelled or expired returns
\* (nil, ctx.Err()) at entry, starts no getResource, constructs nothing and
\* leaves the resources as they were; such a call never gets past entry.
C8_DeadContextNoEffect ==
  /\ (last.proc # "none" /\ last.pre.ctx # "live") =>
       /\ last.at = "entry"
       /\ last.res = NoRes
       /\ last.pre.ctx = "canceled" => last.err = "Canceled"
       /\ last.pre.ctx = "expired" => last.err = "DeadlineExceeded"
       /\ gpc[last.proc] = "none"
       /\ SameAsBefore(last)
  /\ \A p \in Procs : pc[p] \in {"wait", "retry"} => pre[p].ctx = "live"

\* C8 witness: a retrying call with an expired context returned on a pool
\* that holds an idle resource
C8_Witness ==
  /\ last.proc # "none" /\ last.pre.ctx = "expired" /\ last.retry
  /\ last.err = "DeadlineExceeded"
  /\ \E r \in pool : ~isAcquired[r]

\* C9: on a pool that holds maxPoolSize entries, none idle and under the
\* limit, a non-retrying call with a live context returns
\* (nil, ErrorPoolLimitReached) from the first select, constructs nothing and
\* leaves the resources as they were; only retrying calls enter the delay.
C9_LimitReachedNoRetry ==
  /\ ( /\ last.proc # "none" /\ ~last.retry /\ last.ctx = "live"
       /\ Cardinality(last.pre.pool) = maxPoolSize
       /\ \A r \in last.pre.pool :
            \/ last.pre.isAcquired[r]
            \/ /\ resourceUsageLimit # 0
               /\ last.pre.usageCount[r] >= resourceUsageLimit ) =>
       /\ last.err = "PoolLimitReached"
       /\ last.res = NoRes
       /\ last.at = "result"
       /\ SameAsBefore(last)
  /\ \A p \in Procs : pc[p] = "retry" => retry[p]

\* C9 witness: a pool of size 2 with both resources held refused a call
C9_Witness ==
  /\ last.proc # "none" /\ ~last.retry
  /\ last.err = "PoolLimitReached"
  /\ maxPoolSize = 2 /\ Cardinality(pool) = 2
  /\ \A r \in pool : isAcquired[r]

\* C3: starting from a fresh or Reset breaker with threshold k and only
\* failing actions, one Proceed after the other, the state stays Closed
\* through the first k calls and is Open after call k+1; each of these calls
\* runs the action and returns the action's error, never ErrCircuitOpen; and
\* Closed turns into Open only in recordFailure's setState, right after a
\* failed action, with the incremented failureCount above failureLimit.
C3_OpensAfterThreshold ==
  /\ [](run # Broken =>
          /\ bpc[Caller] = "idle" =>
               /\ failureCount = run
               /\ run <= failureLimit => currentState = "Closed"
               /\ run = failureLimit + 1 => currentState = "Open"
          /\ (run <= failureLimit /\ currentState # "Closed") =>
               /\ run = failureLimit
               /\ currentState = "Open"
               /\ bpc[Caller] = "OnFailure"
          /\ (blast.proc # "none" /\ run > 0) =>
               /\ blast.invoked
               /\ blast.err = "ActionErr")
  /\ [][(currentState = "Closed" /\ currentState' = "Open") =>
          /\ bpc[Caller] = "setOpen"
          /\ invoked[Caller]
          /\ exceeded[Caller]
          /\ failureCount > failureLimit]_vars

C3_Witness ==
  /\ failureLimit = 2
  /\ run = 3
  /\ currentState = "Open"
  /\ blast.proc # "none" /\ blast.invoked /\ blast.err = "ActionErr"
  /\ blast.pre.state = "Closed" /\ blast.pre.failureCount = 2

\* C4: a Proceed call that begins while the state is Open and returns while
\* no more than ResetTimeout has passed since lastAttempt returns
\* ErrCircuitOpen, runs neither the action nor a hook, and leaves
\* currentState, failureCount and lastAttempt as they were.
C4_OpenRejects ==
  (/\ blast.proc # "none"
   /\ blast.pre.state = "Open"
   /\ blast.pre.lastAttempt # ZeroTime
   /\ now - blast.pre.lastAttempt <= timeout) =>
     /\ blast.err = "ErrCircuitOpen"
     /\ ~blast.invoked
     /\ blast.hooks = <<>>
     /\ currentState = "Open"
     /\ failureCount = blast.pre.failureCount
     /\ lastAttempt = blast.pre.lastAttempt

C4_Witness ==
  /\ timeout = 1
  /\ blast.proc # "none"
  /\ blast.pre.state = "Open"
  /\ now - blast.pre.lastAttempt = timeout
  /\ blast.err = "ErrCircuitOpen"

C11_ClosedWhenCountDropsToZero ==
  (/\ blast.proc # "none"
   /\ blast.pre.state = "Open"
   /\ blast.pre.lastAttempt # ZeroTime
   /\ blast.pre.now - blast.pre.lastAttempt > timeout) =>
     /\ blast.invoked
     /\ (blast.err = "nil" /\ failureCount = 0) => currentState = "Closed"

\* C11, amended: such a call runs the action (having set HalfOpen itself), and
\* if the action succeeds failureCount is one less than at the call and the
\* state is HalfOpen when the call returns, also when failureCount is then
\* zero; if the action fails the state is Open again.
C11_ProbeSuccessStaysHalfOpen ==
  (/\ blast.proc # "none"
   /\ blast.pre.state = "Open"
   /\ blast.pre.lastAttempt # ZeroTime
   /\ blast.pre.now - blast.pre.lastAttempt > timeout) =>
     /\ blast.invoked
     /\ blast.probed
     /\ blast.err \in {"nil", "ActionErr"}
     /\ blast.err = "nil" =>
          /\ blast.pre.failureCount > 0
          /\ failureCount = blast.pre.failureCount - 1
          /\ currentState = "HalfOpen"
     /\ blast.err = "ActionErr" =>
          /\ failureCount = blast.pre.failureCount + 1
          /\ currentState = "Open"

C11_Witness ==
  /\ blast.proc # "none"
  /\ blast.pre.state = "Open"
  /\ blast.pre.now - blast.pre.lastAttempt > timeout
  /\ blast.invoked
  /\ blast.err = "nil"
  /\ failureCount = 0
  /\ currentState = "HalfOpen"

\* the state in which a Proceed call that has returned ran its action
RanIn(e) == IF e.probed THEN "HalfOpen" ELSE e.pre.state

\* C12: a Proceed call whose action succeeds (run in Closed or HalfOpen)
\* leaves failureCount one lower when it was positive, never negative and not
\* reset to zero, and then leaves the state as it was; a success that finds
\* failureCount zero leaves it zero and the state Closed. The steps of a
\* successful call change the state only in that last case. So a successful
\* probe after Open -> HalfOpen with failureCount > 0 leaves HalfOpen.
C12_SuccessDecrements ==
  /\ [](failureCount >= 0)
  /\ []((blast.proc # "none" /\ blast.err = "nil") =>
          /\ blast.invoked
          /\ RanIn(blast) \in {"Closed", "HalfOpen"}
          /\ IF blast.pre.failureCount > 0
               THEN /\ failureCount = blast.pre.failureCount - 1
                    /\ currentState = RanIn(blast)
               ELSE /\ failureCount = 0
                    /\ currentState = "Closed")
  /\ [][(bpc[Caller] \in {"OnSuccess", "recordSuccess", "setClosed"}
          /\ currentState' # currentState) =>
            /\ bpc[Caller] = "setClosed"
            /\ failureCount = 0
            /\ currentState' = "Closed"]_vars

C12_Witness ==
  /\ blast.proc # "none"
  /\ blast.err = "nil"
  /\ blast.probed
  /\ blast.pre.state = "Open"
  /\ blast.pre.failureCount = 2
  /\ failureCount = 1
  /\ currentState = "HalfOpen"

\* C13: with one call at a time, once Reset has returned the state is Closed
\* and failureCount is 0, whatever state Reset found (Closed, HalfOpen or
\* Open, timed out or not), and the Proceed call that follows it begins with
\* that state, runs the action and does not return ErrCircuitOpen.
C13_ResetCloses ==
  /\ (reset.done /\ bpc[Caller] = "idle") =>
       /\ currentState = "Closed"
       /\ failureCount = 0
  /\ (blast.proc # "none" /\ blast.reset.done) =>
       /\ blast.pre.state = "Closed"
       /\ blast.pre.failureCount = 0
       /\ blast.invoked
       /\ blast.err # "ErrCircuitOpen"

C13_Witness ==
  /\ blast.proc # "none"
  /\ blast.reset.done
  /\ blast.reset.state = "Open"
  /\ ~blast.reset.timedOut
  /\ blast.invoked
  /\ blast.err = "nil"

\* C14: a ReleaseResource that finds its resource in the pool with usageCount
\* at the usage limit L > 0 removes the entry and calls Deconstruction on it
\* once (and no resource is ever deconstructed twice); with usageCount < L, or
\* with L = 0, it keeps the entry, only clears isAcquired, and leaves
\* usageCount and the Deconstruction count as they were.
C14_ReleaseRetiresAtLimit ==
  /\ [][\A p \in Procs : (pc[p] = "release" /\ pc'[p] = "idle") =>
          LET r == arg[p] IN
            /\ usageCount' = usageCount
            /\ constructed' = constructed
            /\ IF resourceUsageLimit > 0 /\ usageCount[r] >= resourceUsageLimit
                 THEN /\ pool' = pool \ {r}
                      /\ deconstructed' =
                           [deconstructed EXCEPT ![r] = deconstructed[r] + 1]
                      /\ isAcquired' = isAcquired
                 ELSE /\ r \in pool'
                      /\ pool' = pool
                      /\ isAcquired' = [isAcquired EXCEPT ![r] = FALSE]
                      /\ deconstructed' = deconstructed]_vars
  /\ [](\A r \in Ids : /\ deconstructed[r] <= 1
                        /\ deconstructed[r] = 1 => r \notin pool)

C14_Witness ==
  /\ resourceUsageLimit = 2
  /\ pc[Caller] = "idle"
  /\ usageCount[1] = 2
  /\ deconstructed[1] = 1
  /\ 1 \notin pool
  /\ 1 \notin held[Caller]

\* C15: a ReleaseResource whose argument has no entry in the pool (a resource
\* this pool never produced, one already retired, one detached) returns
\* without effect: pool membership, every isAcquired and usageCount, and the
\* numbers of Construct and Deconstruction calls are as before.
C15_ReleaseUnknownIsNoOp ==
  [][(rel'.proc # "none" /\ rel'.op = "release" /\ ~rel'.found) =>
       /\ rel'.res \notin pool
       /\ pool' = pool
       /\ isAcquired' = isAcquired
       /\ usageCount' = usageCount
       /\ constructed' = constructed
       /\ deconstructed' = deconstructed]_vars

C15_Witness ==
  /\ rel.proc # "none" /\ rel.op = "release" /\ ~rel.found
  /\ rel.res \in Ids
  /\ deconstructed[rel.res] = 1
  /\ pool # {}

\* C16: a DetachResource that finds r in the pool removes the entry without a
\* Deconstruction call and changes nothing else; on a pool of size 1 the pool
\* is then empty, and the AcquireResource that follows constructs and returns
\* a resource other than r; a DetachResource of a resource that is not in the
\* pool (detached before, or never in it) changes nothing.
C16_DetachFreesSlot ==
  /\ [][(rel'.proc # "none" /\ rel'.op = "detach") =>
          /\ pool' = pool \ {rel'.res}
          /\ rel'.found = (rel'.res \in pool)
          /\ isAcquired' = isAcquired
          /\ usageCount' = usageCount
          /\ constructed' = constructed
          /\ deconstructed' = deconstructed]_vars
  /\ []((/\ rel.proc # "none"
         /\ rel.op = "detach"
         /\ rel.found
         /\ maxPoolSize = 1) =>
          pool = {})
  /\ []((/\ last.proc # "none"
         /\ last.pre.after.op = "detach"
         /\ last.pre.after.found
         /\ maxPoolSize = 1
         /\ last.ctx = "live") =>
          /\ last.err = "nil"
          /\ last.res # last.pre.after.res
          /\ last.res = last.pre.constructed + 1
          /\ pool = {last.res})

C16_Witness ==
  /\ maxPoolSize = 1
  /\ last.proc # "none"
  /\ last.pre.after.op = "detach"
  /\ last.pre.after.found
  /\ last.pre.after.res = 1
  /\ last.res = 2
  /\ deconstructed[1] = 0

\* C17: an AcquireAndReleaseResource call that ran action returns what action
\* returned (nil or its error), and when it returns the resource it had
\* acquired is released: no longer held, and either an idle entry of the pool
\* under its usage limit, or - having reached the limit - removed from the
\* pool and deconstructed once. A call whose acquisition fails returns the
\* context's error and never ran action.
C17_WrapperReleases ==
  (rel.proc # "none" /\ rel.op = "AcquireAndReleaseResource") =>
    IF rel.action = "none"
      THEN /\ rel.res = NoRes
           /\ rel.err \in {"Canceled", "DeadlineExceeded"}
      ELSE /\ rel.err = rel.action
           /\ rel.res \in Ids
           /\ rel.res \notin held[rel.proc]
           /\ IF resourceUsageLimit = 0
                 \/ usageCount[rel.res] < resourceUsageLimit
                THEN /\ rel.res \in pool
                     /\ ~isAcquired[rel.res]
                     /\ deconstructed[rel.res] = 0
                ELSE /\ rel.res \notin pool
                     /\ deconstructed[rel.res] = 1

C17_Witness ==
  /\ rel.proc # "none" /\ rel.op = "AcquireAndReleaseResource"
  /\ rel.action = "ActionErr"
  /\ rel.err = "ActionErr"
  /\ resourceUsageLimit = 2
  /\ usageCount[rel.res] = 2
  /\ rel.res \notin pool

\* C18: when a CleanUpManagedResources that was called with a live context
\* while no other pool operation ran returns nil, the pool has no entries and
\* every resource that was in the pool when the call began has been
\* deconstructed exactly once.
C18_CleanUpEmptiesPool ==
  (/\ rel.proc # "none"
   /\ rel.op = "CleanUpManagedResources"
   /\ rel.err = "nil") =>
     /\ pool = {}
     /\ \A r \in rel.cleaned : deconstructed[r] = 1

\* C19: with usage limit 0, acquire/release cycles of any length, also more
\* than 255 on the same resource, never remove a resource from the pool and
\* never call Deconstruction; on a pool of size 1 a sequential caller gets
\* the one resource the pool constructed from every acquisition that succeeds.
C19_UnlimitedNeverRetires ==
  /\ [](resourceUsageLimit = 0 =>
          /\ \A r \in Ids : deconstructed[r] = 0
          /\ maxPoolSize = 1 =>
               /\ constructed <= 1
               /\ (last.proc # "none" /\ last.err = "nil") =>
                    (last.res = 1 /\ pool = {1}))
  /\ [][resourceUsageLimit = 0 => pool \subseteq pool']_vars

C19_Witness ==
  /\ resourceUsageLimit = 0 /\ maxPoolSize = 1
  /\ calls > 2 * Uint8
  /\ last.proc # "none" /\ last.err = "nil" /\ last.res = 1
  /\ usageCount[1] = 1

\* C20: a Proceed call that found the state Closed or HalfOpen ran the action
\* and returns its outcome: (result, nil) after a success, (nil, the action's
\* error) after a failure; ErrCircuitOpen is returned only by a call that
\* found the state Open and not timed out, and such a call has run neither
\* the action nor a hook.
C20_ReturnsActionOutcome ==
  blast.proc # "none" =>
    /\ blast.err \in {"nil", "ActionErr", "ErrCircuitOpen"}
    /\ blast.pre.state \in {"Closed", "HalfOpen"} =>
         (blast.invoked /\ blast.err # "ErrCircuitOpen")
    /\ blast.invoked =>
         \/ blast.res = "result" /\ blast.err = "nil"
                                /\ blast.hooks = <<"OnSuccess">>
         \/ blast.res = "nil" /\ blast.err = "ActionErr"
                             /\ blast.hooks = <<"OnFailure">>
    /\ blast.err = "ErrCircuitOpen" <=> ~blast.invoked
    /\ ~blast.invoked =>
         /\ blast.res = "nil"
         /\ blast.hooks = <<>>
         /\ blast.pre.state = "Open"
         /\ ~blast.probed

C20_Witness ==
  /\ blast.proc # "none"
  /\ blast.pre.state = "HalfOpen"
  /\ blast.invoked
  /\ blast.res = "nil"
  /\ blast.err = "ActionErr"

\* C21: Proceed, GetState and Reset never deadlock, also when an action or a
\* hook calls the same breaker: a caller that holds cb.mu is inside one of the
\* short critical sections (never in the action, in a hook or at the start of
\* another lock operation), and whenever calls are in progress one of them
\* can take its next step.
HoldsMu(p) == mu.writer = p \/ p \in mu.readers

C21_NoDeadlock ==
  /\ \A p \in Procs :
       HoldsMu(p) => \E pcv \in RLockPcs \cup LockPcs : Inside(p, pcv)
  /\ (\E p \in Procs : stack[p] # <<>>)
       => \E p \in Procs : stack[p] # <<>> /\ ENABLED MuSteps(p)

\* a Reset called from inside an action holds the lock for writing while the
\* other caller waits for it
C21_Witness ==
  \E p, q \in Procs :
    /\ p # q
    /\ Len(stack[p]) = 2
    /\ stack[p][1].pc = "action"
    /\ Inside(p, "Reset")
    /\ mu.writer = p
    /\ q \in mu.pending


\* C22: the breaker is never stuck: a Reset that completes leaves it Closed
\* with failureCount 0, and once the clock has passed ResetTimeout after the
\* last failure, Proceed calls whose actions succeed bring failureCount to 0
\* and the state to Closed.
C22_ClosedStaysReachable ==
  /\ [][ResetSetState(Caller) => currentState' = "Closed" /\ failureCount' = 0]_vars
  /\ (now = MaxTime) ~> (currentState = "Closed" /\ failureCount = 0)

\* a successful Proceed closes the breaker that was half-open after an open
\* period, failures having been counted above the threshold before
C22_Witness ==
  /\ now = MaxTime
  /\ blast.proc # "none"
  /\ blast.err = "nil"
  /\ blast.probed = FALSE
  /\ blast.pre.state = "HalfOpen"
  /\ blast.pre.lastAttempt # ZeroTime
  /\ currentState = "Closed"
  /\ failureCount = 0
  /\ reset = NoReset
  /\ "failed" \in seen


\* C23: every read of the retry delay is made under rpm.mu, the one that
\* arms the retry timer of AcquireResource included: no timer is armed from a
\* read made while another caller held rpm.mu for writing, inside
\* SetRetryOnResourceDelay.
C23_DelayReadUnderLock ==
  \A p \in Procs : timer[p] # NoTimer => timer[p].writer = "none"


\* C24: NewCircuitBreaker returns (nil, error) whenever one of the two fields
\* is not the decimal representation of a non-negative integer (digits, with
\* or without a plus sign), and otherwise a closed breaker with failureCount
\* 0 whose threshold and timeout are the parsed values.
IsNatural(str) ==
  IsDigits(str) \/ (str # <<>> /\ str[1] = "+" /\ IsDigits(Tail(str)))

NaturalOf(str) == Num(0, Value(IF str[1] = "+" THEN Tail(str) ELSE str))

C24_RejectsNonNatural ==
  made # NoMade =>
    IF IsNatural(cfg.ResetTimeout) /\ IsNatural(cfg.MaxFailuresThreshold)
      THEN /\ made.cb = "cb"
           /\ made.err = "nil"
           /\ made.currentState = "Closed"
           /\ made.failureCount = 0
           /\ made.failureLimit = NaturalOf(cfg.MaxFailuresThreshold)
           /\ made.timeout = NaturalOf(cfg.ResetTimeout)
      ELSE made.cb = "nil" /\ made.err # "nil"


C26_ZeroCapacity ==
  maxPoolSize = 0 =>
    /\ constructed = 0
    /\ pool = {}
    /\ (last.proc # "none" /\ ~last.retry) =>
         /\ last.res = NoRes
         /\ last.err # "nil"
         /\ last.ctx = "live" => last.err = "PoolLimitReached" /\ last.at = "result"

\* the third refused call in a row on a pool of size 0
C26_Witness ==
  /\ maxPoolSize = 0
  /\ calls = 3
  /\ last.proc # "none"
  /\ ~last.retry
  /\ last.ctx = "live"
  /\ last.err = "PoolLimitReached"
  /\ last.res = NoRes


\* C27: a CleanUpManagedResources call made with an already-cancelled context
\* returns context.Canceled at once and destroys nothing: Deconstruction is
\* not called and every entry of the pool is left as it was.
C27_CancelledCleanUpDestroysNothing ==
  [][\A p \in Procs :
       CallCleanUp(p, "canceled", MaxShutdownCalls, FALSE) =>
         /\ rel'.proc = p
         /\ rel'.op = "CleanUpManagedResources"
         /\ rel'.err = "Canceled"
         /\ pc'[p] = "idle"
         /\ pool' = pool
         /\ isAcquired' = isAcquired
         /\ usageCount' = usageCount
         /\ deconstructed' = deconstructed]_vars

\* the call was refused with two entries in the pool, one of them held
C27_Witness ==
  /\ rel.op = "CleanUpManagedResources"
  /\ rel.err = "Canceled"
  /\ Cardinality(pool) = 2
  /\ \E r \in pool : isAcquired[r]
  /\ \E r \in pool : ~isAcquired[r]
  /\ \A r \in pool : deconstructed[r] = 0


\* C28: when the deadline of the context has passed and the Construct call
\* made for this AcquireResource is still running, the call does not wait for
\* it: the Done case of the select is ready and the result case is not, and
\* the call returns (nil, context.DeadlineExceeded) while Construct goes on,
\* with retry as well as without.
C28_DeadlineDuringConstruct ==
  /\ [](\A p \in Procs :
          (pc[p] = "wait" /\ ctx[p] = "expired" /\ gpc[p] = "construct") =>
            /\ ENABLED SelectCtxDone(p)
            /\ ~ENABLED SelectResult(p))
  /\ [][\A p \in Procs :
          (/\ pc[p] = "wait"
           /\ ctx[p] = "expired"
           /\ gpc[p] = "construct"
           /\ pc'[p] # "wait") =>
            /\ last'.proc = p
            /\ last'.res = NoRes
            /\ last'.err = "DeadlineExceeded"
            /\ last'.at = "select"
            /\ held'[p] = held[p]
            /\ gpc'[p] = "construct"
            /\ constructed' = constructed]_vars

\* a retrying call returned DeadlineExceeded while its Construct still runs
C28_Witness ==
  /\ last.proc # "none"
  /\ last.retry
  /\ last.ctx = "expired"
  /\ last.err = "DeadlineExceeded"
  /\ last.res = NoRes
  /\ gpc[last.proc] = "construct"


\* C29: every pool entry marked acquired belongs to a resource that an
\* AcquireResource call returned to its caller (or is handing over to a
\* caller that still waits for it): a call that returned an error left no
\* entry stored or marked acquired on its behalf.
C29_NoOrphanedEntry ==
  \A r \in pool :
    isAcquired[r] =>
      \E p \in Procs :
        \/ r \in held[p]
        \/ arg[p] = r
        \/ pc[p] = "wait" /\ chan[p] # NoMsg /\ chan[p].res = r


\* C30: once DetachResource(r) has returned, r is never again an entry of the
\* pool, is not returned by AcquireResource and is not passed to
\* Deconstruction, whatever release or acquisition was in flight.
C30_DetachIsFinal ==
  [][\A r \in detached :
       /\ r \notin pool'
       /\ ~(last'.proc # "none" /\ last'.res = r)
       /\ deconstructed'[r] = deconstructed[r]]_vars


\* C31: in every reachable state, also with Proceed and Reset calls running
\* concurrently, the breaker is Open only while failureCount is above
\* MaxFailuresThreshold.
C31_OpenMeansExceeded ==
  currentState = "Open" => failureCount > failureLimit


\* C32: Reset is atomic for concurrent Proceed calls: after it the breaker
\* leaves Closed only for Open, and only when the failures recorded since
\* have pushed failureCount above the threshold; no setState begun before
\* the Reset moves it to Open or HalfOpen afterwards.
C32_NoStaleSetState ==
  [][(currentState = "Closed" /\ currentState' # "Closed") =>
       /\ currentState' = "Open"
       /\ failureCount > failureLimit]_vars


\* C33: Deconstruction is called at most once for a resource, however
\* ReleaseResource at the usage limit, CleanUpManagedResources and
\* DetachResource on that resource interleave.
C33_DeconstructedOnce ==
  \A r \in Ids : deconstructed[r] <= 1


\* C34: while a resource stays in the pool its usageCount never decreases:
\* an acquisition raises it by exactly 1 and nothing lowers it, for any
\* number of acquisitions of the same resource.
C34_UsageCountNeverDecreases ==
  [][\A r \in pool :
       r \in pool' =>
         /\ usageCount'[r] >= usageCount[r]
         /\ (~isAcquired[r] /\ isAcquired'[r]) =>
              usageCount'[r] = usageCount[r] + 1]_vars


\* the entries that were idle and under the usage limit when the call of
\* event e began
IdleEligibleBefore(e) ==
  {r \in e.pre.pool :
     /\ ~e.pre.isAcquired[r]
     /\ resourceUsageLimit = 0 \/ e.pre.usageCount[r] < resourceUsageLimit}

\* C35: for a single caller, Construct is called only when no entry of the
\* pool is idle and under the usage limit and the pool has room; when there is
\* such an entry, a call with a live context returns one of them, its
\* usageCount has grown by exactly 1, it is acquired, nothing was constructed
\* and the pool has the same entries as before.
C35_ConstructsOnlyWhenNoneIdle ==
  /\ [][constructed' # constructed =>
          /\ \A r \in pool :
               isAcquired[r] \/ (resourceUsageLimit # 0
                                   /\ usageCount[r] >= resourceUsageLimit)
          /\ maxPoolSize = UnlimitedPool \/ Cardinality(pool) < maxPoolSize]_vars
  /\ [](( /\ last.proc # "none"
          /\ IdleEligibleBefore(last) # {}
          /\ last.ctx = "live" \/ last.err = "nil") =>
            /\ last.err = "nil"
            /\ last.res \in IdleEligibleBefore(last)
            /\ usageCount[last.res] = last.pre.usageCount[last.res] + 1
            /\ isAcquired[last.res]
            /\ \A r \in Ids \ {last.res} :
                 /\ usageCount[r] = last.pre.usageCount[r]
                 /\ isAcquired[r] = last.pre.isAcquired[r]
            /\ constructed = last.pre.constructed
            /\ pool = last.pre.pool)

\* a released resource was returned again although the pool of size 2 had
\* room for a second one
C35_Witness ==
  /\ last.proc # "none"
  /\ last.err = "nil"
  /\ maxPoolSize = 2
  /\ last.pre.pool = {1}
  /\ last.res = 1
  /\ usageCount[1] = 2
  /\ constructed = 1


\* the call of event e began on a pool without room and without an idle entry
FullBefore(e) ==
  /\ maxPoolSize # UnlimitedPool
  /\ Cardinality(e.pre.pool) >= maxPoolSize
  /\ \A r \in e.pre.pool : e.pre.isAcquired[r]

\* C36: only the context bounds the retry loop: a call whose context has
\* been cancelled or has expired eventually returns; a retrying call on a pool
\* that is and stays full does not return while its context is live (it
\* returns the context's error, and nothing else).
C36_BoundedByContextOnly ==
  /\ \A p \in Procs :
       (pc[p] \in {"acquire", "wait", "retry"} /\ ctx[p] # "live")
         ~> (pc[p] = "idle")
  /\ []((last.proc # "none" /\ last.retry /\ FullBefore(last)) =>
          /\ last.ctx # "live"
          /\ last.res = NoRes
          /\ last.err = CtxErr(last.ctx))

\* a retrying call on a full pool went round the loop and returned once its
\* context was cancelled
C36_Witness ==
  /\ last.proc # "none"
  /\ last.retry
  /\ FullBefore(last)
  /\ maxPoolSize = 1
  /\ last.ctx = "canceled"
  /\ last.err = "Canceled"
  /\ last.at = "retry"


\* C37: waiting callers are not served in any order: in the schedule of
\* SpecStarve, which is fair to every step of both callers (whatever stays
\* possible is done, the timer fires and the resource is released again and
\* again), Victim's retrying call re-checks the pool for ever, the resource
\* is idle again and again while Victim waits, and Victim never gets it.
C37_StarvationIsPossible ==
  /\ [](held[Victim] = {} /\ (calls = 1 => pc[Victim] # "idle"))
  /\ <>(calls = 1)
  /\ []<><<RetryTimer(Victim)>>_vars
  /\ []<><<ReleaseBody(Rival)>>_vars
  /\ []<>(pc[Victim] = "retry" /\ \E r \in pool : ~isAcquired[r])
  /\ \A p \in Procs : WF_vars(AcquireSteps(p))
  /\ \A p \in Procs :
       WF_vars(\E r \in held[p] : ReleaseLoad(p, r) /\ UNCHANGED calls)
  /\ \A p \in Procs : WF_vars(ReleaseBody(p))
  /\ SF_vars(RetryTimer(Victim))

\* Victim is still waiting after Rival has used the resource 200 times
C37_Witness ==
  /\ pc[Victim] = "retry"
  /\ calls = 1
  /\ held[Rival] = {1}
  /\ usageCount[1] = 200
  /\ \E r \in pool : isAcquired[r]


\* C38: when the action run by the Proceed call that turned Open into
\* HalfOpen fails, recordFailure stores the time of the failure in
\* lastAttempt and finds the count above the limit, the breaker is Open when
\* the call returns, and Open turns into HalfOpen again only when more than
\* ResetTimeout has passed since that failure.
C38_FailedProbeReopens ==
  /\ [][(probed[Caller] /\ bpc[Caller] = "recordFailure"
           /\ bpc'[Caller] # "recordFailure") =>
          /\ lastAttempt' = now
          /\ failureCount' = failureCount + 1
          /\ bpc'[Caller] = "setOpen"]_vars
  /\ []((blast.proc # "none" /\ blast.probed /\ blast.err # "nil") =>
          /\ blast.invoked
          /\ blast.err = "ActionErr"
          /\ currentState = "Open"
          /\ failureCount = blast.pre.failureCount + 1
          /\ failureCount > failureLimit
          /\ lastAttempt > blast.pre.lastAttempt + timeout
          /\ lastAttempt >= blast.pre.now
          /\ lastAttempt <= now)
  /\ [][(currentState = "Open" /\ currentState' = "HalfOpen") =>
          now > lastAttempt + timeout]_vars

\* the probe made after an open period of more than one tick failed at
\* time 3, and the breaker is Open with lastAttempt = 3
C38_Witness ==
  /\ timeout = 1
  /\ blast.proc # "none"
  /\ blast.probed
  /\ blast.err = "ActionErr"
  /\ currentState = "Open"
  /\ lastAttempt = 3
  /\ blast.pre.lastAttempt = 0


====
